---- MODULE Spec2Model ----
(***************************************************************************)
(* State machine of the image editor (src/ImageEditor.tsx) and of the      *)
(* AI-edit request wrapper (src/services/geminiService.ts).                *)
(*                                                                         *)
(* One action per event handler.  An async handler is a task: its first    *)
(* action runs the code up to the first await and stores what the closure  *)
(* captured (the render's images, selectedImageId, pendingEnhancement);    *)
(* one action per continuation settles it.                                 *)
(***************************************************************************)
EXTENDS Integers, Sequences, FiniteSets, Bags, TLC

\* ---------------------------------------------------------------- bounds
MaxHistory == 2   \* snapshots kept in history.current
MaxImages  == 1   \* length of the image list
MaxTasks   == 2   \* async handlers in flight at once
MaxResults == 2   \* images returned by the AI endpoint in one session
MaxClock   == 0   \* largest value Date.now() takes
MaxListImages == 2   \* length of the image list in SpecList
MaxSaves   == 1   \* calls of onSave in one session

\* -------------------------------------------------------- value encodings
NoId    == <<>>          \* selectedImageId === null
NoData  == "null"        \* a null base64 / data-URL string
NoError == <<>>          \* error === null; a message m is <<m>>, m a sequence of text pieces
NoTool  == "null"        \* activeTool === null
NoAdj   == <<>>          \* tempAdjustments === null
NoCrop  == <<>>          \* crop === undefined

ResultData == <<"r1", "r2", "r3", "r4">>   \* successive AI results, pairwise distinct
FileData   == "f"                             \* data URL read from a chosen file
MaskData   == "m"                             \* canvas.toDataURL() of a painted mask

defaultAdjustments ==
    [brightness |-> 100, contrast |-> 100, saturate |-> 100, hue |-> 0]

fullCrop == [unit |-> "%", x |-> 0, y |-> 0, width |-> 100, height |-> 100]

WideFile   == "g"                             \* data URLs of two other files
SquareFile == "h"
Files      == {FileData, WideFile, SquareFile}

\* Natural dimensions the browser decodes from a data URL (getImageDimensions).
DimOf(data) == IF data = FileData THEN [w |-> 50, h |-> 25]
               ELSE IF data = WideFile THEN [w |-> 400, h |-> 300]
               ELSE [w |-> 100, h |-> 100]

\* ------------------------------------------------------------------ state
VARIABLES
    images,              \* useState<ImageState[]>
    selectedImageId,     \* useState<string | null>
    history,             \* history.current : ImageState[][]
    historyIndex,        \* historyIndex.current
    prompt,              \* useState<string>
    isLoading,
    isEnhancing,
    error,
    pendingEnhancement,
    activeTool,
    tempAdjustments,
    isDesktop,           \* useMediaQuery('(min-width: 1024px)')
    tasks,               \* bag of the async handlers between two awaits
    now,                 \* last value read from Date.now()
    results,             \* number of images the AI endpoint has returned
    call,                \* editImageWithPrompt: arguments and position
    parts,               \* editImageWithPrompt: parts of the request built
    saved,               \* the payloads handleSave has passed to onSave
    pendingSource        \* (for the properties) the id of the image whose
                         \* enhancement is pendingEnhancement

editorVars == <<images, selectedImageId, history, historyIndex, prompt, isLoading,
                isEnhancing, error, pendingEnhancement, activeTool, tempAdjustments,
                isDesktop, tasks, now, results, saved, pendingSource>>
serviceVars == <<call, parts>>
vars == <<images, selectedImageId, history, historyIndex, prompt, isLoading,
          isEnhancing, error, pendingEnhancement, activeTool, tempAdjustments,
          isDesktop, tasks, now, results, call, parts, saved, pendingSource>>

\* --------------------------------------------------------- derived values
Ids(imgs) == {imgs[k].id : k \in 1..Len(imgs)}

\* images.find(img => img.id === selectedImageId): index of the first match, 0 if none
FindIndex(imgs, id) ==
    IF \E k \in 1..Len(imgs) : imgs[k].id = id
    THEN CHOOSE k \in 1..Len(imgs) :
            /\ imgs[k].id = id
            /\ \A j \in 1..(k - 1) : imgs[j].id # id
    ELSE 0

hasActiveImage == FindIndex(images, selectedImageId) # 0
activeImage    == images[FindIndex(images, selectedImageId)]

canUndo == historyIndex > 0
canRedo == historyIndex < Len(history) - 1

isGenerateDisabled == ~hasActiveImage \/ prompt = "" \/ isLoading \/ isEnhancing
isAnyLoading       == isLoading \/ isEnhancing

\* current.map(img => img.id === id ? f(img) : img), given mapped[k] = f(current[k])
MapImage(imgs, id, mapped) ==
    [k \in 1..Len(imgs) |-> IF imgs[k].id = id THEN mapped[k] ELSE imgs[k]]

Filter(imgs, id) == SelectSeq(imgs, LAMBDA img : img.id # id)

\* A task of the given kind started from the current render.  images, sel and
\* pending are the render's values the handler's closure captured; a task keeps
\* only those its code still reads after its first await (handleEnhanceImage
\* reads none of the list, only handleConfirmEnhancement reads
\* pendingEnhancement); sel is the id of the closure's activeImage, whose data
\* handleEnhanceImage sends.
NewTask(kind, stage, n) ==
    [kind |-> kind, stage |-> stage, n |-> n,
     images |-> IF kind = "enhance" THEN <<>> ELSE images,
     sel |-> selectedImageId,
     pending |-> IF kind = "confirm" THEN pendingEnhancement ELSE NoData,
     result |-> NoData, calls |-> 0]

\* ------------------------------------------------------ history management
\* The mutants below are plausible slips of the code that follows them.
setImagesNoTruncate(newState, saveToHistory) ==
    /\ images' = newState
    /\ IF saveToHistory
       THEN /\ history' = Append(history, newState)
            /\ historyIndex' = historyIndex + 1
       ELSE UNCHANGED <<history, historyIndex>>

setImages(newState, saveToHistory) ==
    /\ images' = newState
    /\ IF saveToHistory
       THEN LET newHistory == Append(SubSeq(history, 1, historyIndex + 1), newState)
            IN  /\ history' = newHistory
                /\ historyIndex' = Len(newHistory) - 1
       ELSE UNCHANGED <<history, historyIndex>>

\* setImages(..., true) is taken only while the history fits the model's bound.
CanSave == historyIndex + 2 <= MaxHistory

undoUnguarded ==
    /\ historyIndex' = historyIndex - 1
    /\ images' = IF historyIndex > 0 THEN history[historyIndex] ELSE images
    /\ UNCHANGED <<history, selectedImageId, prompt, isLoading, isEnhancing, error,
                   pendingEnhancement, activeTool, tempAdjustments, isDesktop, tasks,
                   now, results, call, parts, saved, pendingSource>>

undo ==
    /\ IF historyIndex > 0
       THEN /\ historyIndex' = historyIndex - 1
            /\ images' = history[historyIndex' + 1]
       ELSE UNCHANGED <<historyIndex, images>>
    /\ UNCHANGED <<history, selectedImageId, prompt, isLoading, isEnhancing, error,
                   pendingEnhancement, activeTool, tempAdjustments, isDesktop, tasks,
                   now, results, call, parts, saved, pendingSource>>

redoStale ==
    /\ IF historyIndex < Len(history) - 1
       THEN /\ historyIndex' = historyIndex + 1
            /\ images' = history[historyIndex + 1]
       ELSE UNCHANGED <<historyIndex, images>>
    /\ UNCHANGED <<history, selectedImageId, prompt, isLoading, isEnhancing, error,
                   pendingEnhancement, activeTool, tempAdjustments, isDesktop, tasks,
                   now, results, call, parts, saved, pendingSource>>

redo ==
    /\ IF historyIndex < Len(history) - 1
       THEN /\ historyIndex' = historyIndex + 1
            /\ images' = history[historyIndex' + 1]
       ELSE UNCHANGED <<historyIndex, images>>
    /\ UNCHANGED <<history, selectedImageId, prompt, isLoading, isEnhancing, error,
                   pendingEnhancement, activeTool, tempAdjustments, isDesktop, tasks,
                   now, results, call, parts, saved, pendingSource>>


\* --------------------------------------------------------------- inputs
BatchSizes == {1, 2}            \* files chosen in one upload
InitialSizes == {0, 1}          \* entries of the initialImages prop (0: prop absent)
Prompts == {"", "p"}            \* text typed in the prompt box
Tools == {"crop", "brush", "adjust", "enhance", "text"}

\* adjustmentControls: the range of each slider
adjustmentControls ==
    [brightness |-> [min |-> 0, max |-> 200],
     contrast   |-> [min |-> 0, max |-> 200],
     saturate   |-> [min |-> 0, max |-> 200],
     hue        |-> [min |-> -180, max |-> 180]]

\* slider events the model takes: <<control, value>>
SliderEvents == {<<"brightness", adjustmentControls.brightness.max>>,
                 <<"hue", adjustmentControls.hue.min>>}

\* percentCrop values the cropper reports while the user drags
CropDrags == {[unit |-> "%", x |-> 10, y |-> 20, width |-> 50, height |-> 40]}

\* percentCrop the cropper reports when a press on the image starts a new
\* crop, before the pointer has moved: a crop without extent
CropPresses == {[unit |-> "%", x |-> 10, y |-> 20, width |-> 0, height |-> 0]}

\* ASPECT_RATIOS as <<numerator, denominator>>; the model clicks the first two
ASPECT_RATIOS == <<<<1, 1>>, <<4, 5>>, <<9, 16>>, <<16, 9>>, <<4, 3>>>>
AspectClicks == {1, 2}

\* --------------------------------------------------- crop geometry helpers
\* react-image-crop, for a crop given as {unit: '%', width: 100}; numbers are
\* integers and a division rounds down (the sizes used divide exactly).
makeAspectCrop(ratio, width, height) ==
    LET w0 == width
        h0 == (w0 * ratio[2]) \div ratio[1]
        h1 == IF h0 > height THEN height ELSE h0
        w1 == IF h0 > height THEN (height * ratio[1]) \div ratio[2] ELSE w0
    IN  [unit |-> "%", x |-> 0, y |-> 0,
         width |-> (w1 * 100) \div width, height |-> (h1 * 100) \div height]

centerCrop(c, width, height) ==
    [c EXCEPT !.x = (100 - c.width) \div 2, !.y = (100 - c.height) \div 2]

\* onImageLoad: the crop it stores for a rendered size width x height
onImageLoadCrop(ratio, width, height) ==
    LET initialCrop == centerCrop(makeAspectCrop(ratio, width, height), width, height)
    IN  [unit |-> "%",
         x |-> (initialCrop.x * 100) \div width,
         y |-> (initialCrop.y * 100) \div height,
         width |-> (initialCrop.width * 100) \div width,
         height |-> (initialCrop.height * 100) \div height]

\* ----------------------------------------------------------- constructors
UploadedImage(id, withCrop) ==
    [id |-> id, file |-> "upload", base64 |-> FileData, generatedBase64 |-> NoData,
     maskBase64 |-> NoData, crop |-> IF withCrop THEN <<fullCrop>> ELSE NoCrop,
     naturalWidth |-> DimOf(FileData).w, naturalHeight |-> DimOf(FileData).h,
     adjustments |-> defaultAdjustments]

\* { ...img, generatedBase64, maskBase64: null, naturalWidth, naturalHeight,
\*   crop: fullCrop, adjustments: defaultAdjustments, file: newFile }
ApplyResult(img, data, fileName) ==
    [img EXCEPT !.generatedBase64 = data, !.maskBase64 = NoData,
                !.naturalWidth = DimOf(data).w, !.naturalHeight = DimOf(data).h,
                !.crop = <<fullCrop>>, !.adjustments = defaultAdjustments,
                !.file = fileName]

\* Date.now() at a continuation: the clock has not moved, or has moved on
Ticks == {t \in {now, now + 1} : t <= MaxClock}

\* newImages of a batch of n files whose ids are stamped with Date.now() = t
NewImages(t, n, withCrop) == [k \in 1..n |-> UploadedImage(<<t, k - 1>>, withCrop)]

\* ------------------------------------------------------------------- Init
InitEditor ==
    /\ images = <<>>
    /\ selectedImageId = NoId
    /\ history = <<>>
    /\ historyIndex = -1
    /\ prompt = ""
    /\ isLoading = FALSE
    /\ isEnhancing = FALSE
    /\ error = NoError
    /\ pendingEnhancement = NoData
    /\ activeTool = NoTool
    /\ tempAdjustments = NoAdj
    /\ results = 0
    /\ saved = <<>>
    /\ pendingSource = NoId

\* editImageWithPrompt is not running: no arguments, no outcome
NoCall == [stage |-> "idle", base64Image |-> <<>>, mimeType |-> "", prompt |-> <<>>,
           maskBase64 |-> <<>>, outcome |-> [ok |-> FALSE, value |-> <<>>]]

\* The editor is mounted with or without initialImages; the mount effect
\* (initializeImages) is already awaiting getImageDimensions in the first case.
Mounted ==
    \E n \in InitialSizes :
        tasks = IF n = 0 THEN EmptyBag
                ELSE SetToBag({[kind |-> "init", stage |-> "decode", n |-> n,
                                images |-> <<>>, sel |-> NoId, pending |-> NoData,
                                result |-> NoData, calls |-> 0]})

Init ==
    /\ InitEditor
    /\ now = MaxClock
    /\ isDesktop \in BOOLEAN
    /\ Mounted
    /\ call = NoCall
    /\ parts = <<>>

\* ------------------------------------------------------ initializeImages
\* await Promise.all(...) resolved: the list, the history and the selection are replaced
InitializeImagesDone(task) ==
    /\ BagIn(task, tasks)
    /\ task.kind = "init"
    /\ \E t \in Ticks :
          LET newImages == NewImages(t, task.n, TRUE)
          IN  /\ now' = t
              /\ images' = newImages
              /\ history' = <<newImages>>
              /\ historyIndex' = 0
              /\ selectedImageId' = newImages[1].id
    /\ tasks' = tasks (-) SetToBag({task})
    /\ UNCHANGED <<prompt, isLoading, isEnhancing, error, pendingEnhancement,
                   activeTool, tempAdjustments, isDesktop, results, call, parts, saved, pendingSource>>

\* getImageDimensions rejected: the promise of initializeImages rejects, nothing is set
InitializeImagesFail(task) ==
    /\ BagIn(task, tasks)
    /\ task.kind = "init"
    /\ tasks' = tasks (-) SetToBag({task})
    /\ UNCHANGED <<images, selectedImageId, history, historyIndex, prompt, isLoading,
                   isEnhancing, error, pendingEnhancement, activeTool, tempAdjustments,
                   isDesktop, now, results, call, parts, saved, pendingSource>>

\* ------------------------------------------------------- handleImageUpload
\* the file input is disabled while loading on desktop only
CanUpload == isDesktop => ~isAnyLoading

HandleImageUploadStart(n) ==
    /\ CanUpload
    /\ BagCardinality(tasks) < MaxTasks
    /\ error' = NoError
    /\ tasks' = tasks (+) SetToBag({NewTask("upload", "read", n)})
    /\ UNCHANGED <<images, selectedImageId, history, historyIndex, prompt, isLoading,
                   isEnhancing, pendingEnhancement, activeTool, tempAdjustments,
                   isDesktop, now, results, call, parts, saved, pendingSource>>

\* setImages(prev => [...prev, ...newImages], true): prev is the closure's images
HandleImageUploadDone(task) ==
    /\ BagIn(task, tasks)
    /\ task.kind = "upload"
    /\ CanSave
    /\ \E t \in Ticks :
          LET newImages == NewImages(t, task.n, FALSE)
          IN  /\ now' = t
              /\ setImages(task.images \o newImages, TRUE)
              /\ selectedImageId' =
                    IF task.sel = NoId THEN newImages[1].id ELSE selectedImageId
    /\ tasks' = tasks (-) SetToBag({task})
    /\ UNCHANGED <<prompt, isLoading, isEnhancing, error, pendingEnhancement,
                   activeTool, tempAdjustments, isDesktop, results, call, parts, saved, pendingSource>>

\* the mutant keeps the files that were read before the one that failed
HandleImageUploadFailPartial(task) ==
    /\ BagIn(task, tasks)
    /\ task.kind = "upload"
    /\ CanSave
    /\ setImages(task.images \o NewImages(now, task.n - 1, FALSE), TRUE)
    /\ error' = <<<<"Falha ao processar as imagens.">>>>
    /\ tasks' = tasks (-) SetToBag({task})
    /\ UNCHANGED <<selectedImageId, prompt, isLoading,
                   isEnhancing, pendingEnhancement, activeTool, tempAdjustments,
                   isDesktop, now, results, call, parts, saved, pendingSource>>

\* fileToBase64 / getImageDimensions reject with an event, not an Error
HandleImageUploadFail(task) ==
    /\ BagIn(task, tasks)
    /\ task.kind = "upload"
    /\ error' = <<<<"Falha ao processar as imagens.">>>>
    /\ tasks' = tasks (-) SetToBag({task})
    /\ UNCHANGED <<images, selectedImageId, history, historyIndex, prompt, isLoading,
                   isEnhancing, pendingEnhancement, activeTool, tempAdjustments,
                   isDesktop, now, results, call, parts, saved, pendingSource>>

\* ------------------------------------------------------- handleRemoveImage
\* the mutant keeps the image it should drop: filter(img => img.id === idToRemove)
handleRemoveImageInverted(idToRemove) ==
    /\ isDesktop
    /\ ~isAnyLoading
    /\ idToRemove \in Ids(images)
    /\ CanSave
    /\ LET remaining == SelectSeq(images, LAMBDA img : img.id = idToRemove)
       IN  /\ setImages(remaining, TRUE)
           /\ selectedImageId' =
                 IF selectedImageId = idToRemove
                 THEN (IF Len(remaining) > 0 THEN remaining[1].id ELSE NoId)
                 ELSE selectedImageId
    /\ UNCHANGED <<prompt, isLoading, isEnhancing, error, pendingEnhancement,
                   activeTool, tempAdjustments, isDesktop, tasks, now, results,
                   call, parts, saved, pendingSource>>

\* the mutant leaves the selection on the image it removes
handleRemoveImageKeepsSelection(idToRemove) ==
    /\ isDesktop
    /\ ~isAnyLoading
    /\ idToRemove \in Ids(images)
    /\ CanSave
    /\ setImages(Filter(images, idToRemove), TRUE)
    /\ UNCHANGED <<selectedImageId, prompt, isLoading, isEnhancing, error,
                   pendingEnhancement, activeTool, tempAdjustments, isDesktop, tasks,
                   now, results, call, parts, saved, pendingSource>>

\* the remove button exists on the desktop thumbnails only
handleRemoveImage(idToRemove) ==
    /\ isDesktop
    /\ ~isAnyLoading
    /\ idToRemove \in Ids(images)
    /\ CanSave
    /\ LET remaining == Filter(images, idToRemove)
       IN  /\ setImages(remaining, TRUE)
           /\ selectedImageId' =
                 IF selectedImageId = idToRemove
                 THEN (IF Len(remaining) > 0 THEN remaining[1].id ELSE NoId)
                 ELSE selectedImageId
    /\ UNCHANGED <<prompt, isLoading, isEnhancing, error, pendingEnhancement,
                   activeTool, tempAdjustments, isDesktop, tasks, now, results,
                   call, parts, saved, pendingSource>>

\* thumbnail click: setSelectedImageId(image.id)
SelectImage(id) ==
    /\ id \in Ids(images)
    /\ isDesktop => ~isAnyLoading
    /\ selectedImageId' = id
    /\ UNCHANGED <<images, history, historyIndex, prompt, isLoading, isEnhancing,
                   error, pendingEnhancement, activeTool, tempAdjustments, isDesktop,
                   tasks, now, results, call, parts, saved, pendingSource>>

\* the media query listener: the window crosses 1024px
MediaChange ==
    /\ isDesktop' = ~isDesktop
    /\ UNCHANGED <<images, selectedImageId, history, historyIndex, prompt, isLoading,
                   isEnhancing, error, pendingEnhancement, activeTool, tempAdjustments,
                   tasks, now, results, call, parts, saved, pendingSource>>

\* onChange of the prompt textarea
SetPrompt(p) ==
    /\ IF isDesktop
       THEN Len(images) > 0 /\ pendingEnhancement = NoData /\ ~isAnyLoading
       ELSE activeTool \in {"brush", "text"}
    /\ prompt' = p
    /\ UNCHANGED <<images, selectedImageId, history, historyIndex, isLoading,
                   isEnhancing, error, pendingEnhancement, activeTool, tempAdjustments,
                   isDesktop, tasks, now, results, call, parts, saved, pendingSource>>


\* ======================================================================
\* services/geminiService.ts.  A string is a sequence of text pieces; ","
\* is a piece of its own, so that split(',') is computed, not assumed.
\* ======================================================================
RECURSIVE SplitComma(_)
\* dataUrl.split(','): the pieces between the commas
SplitComma(str) ==
    IF \A k \in 1..Len(str) : str[k] # ","
    THEN <<str>>
    ELSE LET c == CHOOSE k \in 1..Len(str) :
                     str[k] = "," /\ \A j \in 1..(k - 1) : str[j] # ","
         IN  <<SubSeq(str, 1, c - 1)>> \o SplitComma(SubSeq(str, c + 1, Len(str)))

getRawBase64(dataUrl) ==
    LET ps == SplitComma(dataUrl)
    IN  IF Len(ps) > 1 THEN ps[2] ELSE dataUrl

\* error.message.includes(phrase), for a phrase that is one text piece
Includes(message, phrase) == \E k \in 1..Len(message) : message[k] = phrase

FailedPhrase == "A geração de imagem falhou."

\* A nullable string argument is <<>> (null) or <<str>>; JS truthiness of it:
Truthy(opt) == opt # <<>> /\ opt[1] # <<>>

\* lines 27-59: the parts of the request, in the order they are pushed
buildPartsMaskLast(base64Image, mimeType, promptText, maskBase64) ==
    <<[kind |-> "inlineData", data |-> getRawBase64(base64Image), mimeType |-> mimeType]>>
    \o <<[kind |-> "text", data |-> promptText, mimeType |-> ""]>>
    \o (IF Truthy(maskBase64)
        THEN <<[kind |-> "inlineData", data |-> getRawBase64(maskBase64[1]),
                mimeType |-> "image/png"]>>
        ELSE <<>>)

buildParts(base64Image, mimeType, promptText, maskBase64) ==
    <<[kind |-> "inlineData", data |-> getRawBase64(base64Image), mimeType |-> mimeType]>>
    \o (IF Truthy(maskBase64)
        THEN <<[kind |-> "inlineData", data |-> getRawBase64(maskBase64[1]),
                mimeType |-> "image/png"]>>
        ELSE <<>>)
    \o <<[kind |-> "text",
          data |-> IF ~Truthy(maskBase64)
                   THEN <<"Edite esta imagem de produto para um e-commerce. A tarefa é: '">>
                        \o promptText
                        \o <<"'. A edição deve ser profissional e adequada para um site de vendas.">>
                   ELSE promptText,
          mimeType |-> ""]>>

\* What generateContent does: it throws (an Error with a message, or another
\* value), or resolves to a response whose first candidate, if any, has a
\* finishReason and, if it has content.parts, a list of parts.
ThrewError(message) == [threw |-> "Error", message |-> message, candidate |-> FALSE,
                        finishReason |-> "", hasParts |-> FALSE, parts |-> <<>>]
ThrewOther == [threw |-> "other", message |-> <<>>, candidate |-> FALSE,
               finishReason |-> "", hasParts |-> FALSE, parts |-> <<>>]
NoCandidate == [threw |-> "no", message |-> <<>>, candidate |-> FALSE,
                finishReason |-> "", hasParts |-> FALSE, parts |-> <<>>]
Blocked(reason) == [threw |-> "no", message |-> <<>>, candidate |-> TRUE,
                    finishReason |-> reason, hasParts |-> FALSE, parts |-> <<>>]
Content(ps) == [threw |-> "no", message |-> <<>>, candidate |-> TRUE,
                finishReason |-> "STOP", hasParts |-> TRUE, parts |-> ps]
ImagePart(data) == [kind |-> "inlineData", data |-> data]
TextPart(text)  == [kind |-> "text", data |-> text]

\* lines 73-95: what the try block does with a resolved response:
\* [ok |-> TRUE, value |-> data] or [ok |-> FALSE, value |-> message of the Error thrown]
inspectResponse(response) ==
    IF ~response.candidate \/ ~response.hasParts
    THEN [ok |-> FALSE,
          value |-> IF response.candidate /\ response.finishReason = "SAFETY"
                    THEN <<"A geração de imagem foi bloqueada por motivos de segurança. Por favor, ajuste seu prompt.">>
                    ELSE IF response.candidate /\ response.finishReason # ""
                            /\ response.finishReason # "STOP"
                    THEN <<FailedPhrase, " Motivo: ", response.finishReason, ".">>
                    ELSE <<"A resposta da IA não contém conteúdo. A solicitação pode ter sido bloqueada.">>]
    ELSE IF \E k \in 1..Len(response.parts) : response.parts[k].kind = "inlineData"
    THEN [ok |-> TRUE,
          value |-> response.parts[CHOOSE k \in 1..Len(response.parts) :
                        /\ response.parts[k].kind = "inlineData"
                        /\ \A j \in 1..(k - 1) : response.parts[j].kind # "inlineData"].data]
    ELSE IF \E k \in 1..Len(response.parts) :
                response.parts[k].kind = "text" /\ response.parts[k].data # <<>>
    THEN [ok |-> FALSE,
          value |-> <<"A IA retornou um texto em vez de uma imagem: \"">>
                    \o response.parts[CHOOSE k \in 1..Len(response.parts) :
                          /\ response.parts[k].kind = "text" /\ response.parts[k].data # <<>>
                          /\ \A j \in 1..(k - 1) :
                                ~(response.parts[j].kind = "text"
                                  /\ response.parts[j].data # <<>>)].data
                    \o <<"\"">>]
    ELSE [ok |-> FALSE, value |-> <<"Nenhum dado de imagem encontrado na resposta da IA.">>]

\* lines 97-107: the catch block, given the message of the Error caught
rethrow(message) ==
    IF Includes(message, FailedPhrase)
    THEN message
    ELSE <<"Erro ao chamar a API de IA: ">> \o message

\* editImageWithPrompt as a whole: the value it resolves to, or the message of
\* the Error it rejects with
editImageWithPromptResult(response) ==
    IF response.threw = "Error" THEN [ok |-> FALSE, value |-> rethrow(response.message)]
    ELSE IF response.threw = "other"
    THEN [ok |-> FALSE, value |-> <<"Ocorreu um erro desconhecido ao se comunicar com a IA.">>]
    ELSE LET r == inspectResponse(response)
         IN  IF r.ok THEN r ELSE [ok |-> FALSE, value |-> rethrow(r.value)]


\* ======================================================================
\* ImageEditor.tsx: tools
\* ======================================================================
handleToolSelect(tool) ==
    /\ IF isDesktop
       THEN /\ Len(images) > 0 /\ ~isAnyLoading /\ pendingEnhancement = NoData
            /\ tool \in {"crop", "adjust", "brush", "enhance"}
            /\ tool = "enhance" => hasActiveImage
       ELSE activeTool = NoTool /\ Len(images) > 0
    /\ LET newTool == IF activeTool = tool THEN NoTool ELSE tool
       IN  /\ activeTool' = newTool
           /\ tempAdjustments' = IF newTool = "adjust" /\ hasActiveImage
                                 THEN <<activeImage.adjustments>>
                                 ELSE NoAdj
    /\ UNCHANGED <<images, selectedImageId, history, historyIndex, prompt, isLoading,
                   isEnhancing, error, pendingEnhancement, isDesktop, tasks, now,
                   results, call, parts, saved, pendingSource>>

\* mobile panels: "Cancelar" of the brush/text panel, "Fechar" of the enhance panel
MobileCancelPrompt ==
    /\ ~isDesktop /\ activeTool \in {"brush", "text"}
    /\ activeTool' = NoTool
    /\ prompt' = ""
    /\ UNCHANGED <<images, selectedImageId, history, historyIndex, isLoading,
                   isEnhancing, error, pendingEnhancement, tempAdjustments, isDesktop,
                   tasks, now, results, call, parts, saved, pendingSource>>

MobileCloseEnhance ==
    /\ ~isDesktop /\ activeTool = "enhance"
    /\ activeTool' = NoTool
    /\ UNCHANGED <<images, selectedImageId, history, historyIndex, prompt, isLoading,
                   isEnhancing, error, pendingEnhancement, tempAdjustments, isDesktop,
                   tasks, now, results, call, parts, saved, pendingSource>>

\* ---------------------------------------------------------- adjustments
AdjustPanelShown == activeTool = "adjust" /\ hasActiveImage /\ tempAdjustments # NoAdj

\* the mutant adds the slider's value to the current one instead of storing it
handleAdjustmentChangeAdds(adjustment, value) ==
    /\ AdjustPanelShown
    /\ LET newAdjustments == [tempAdjustments[1] EXCEPT ![adjustment] = @ + value]
           target == activeImage.id
           set(img) == [img EXCEPT !.adjustments = newAdjustments]
       IN  /\ tempAdjustments' = <<newAdjustments>>
           /\ images' = MapImage(images, target, [n \in DOMAIN images |-> set(images[n])])
    /\ UNCHANGED <<selectedImageId, history, historyIndex, prompt, isLoading,
                   isEnhancing, error, pendingEnhancement, activeTool, isDesktop,
                   tasks, now, results, call, parts, saved, pendingSource>>

handleAdjustmentChange(adjustment, value) ==
    /\ AdjustPanelShown
    /\ LET newAdjustments == [tempAdjustments[1] EXCEPT ![adjustment] = value]
           target == activeImage.id
           set(img) == [img EXCEPT !.adjustments = newAdjustments]
       IN  /\ tempAdjustments' = <<newAdjustments>>
           /\ images' = MapImage(images, target, [n \in DOMAIN images |-> set(images[n])])
    /\ UNCHANGED <<selectedImageId, history, historyIndex, prompt, isLoading,
                   isEnhancing, error, pendingEnhancement, activeTool, isDesktop,
                   tasks, now, results, call, parts, saved, pendingSource>>

\* the Reset buttons exist in the desktop panel only
handleResetAdjustment(adjustment) ==
    /\ isDesktop
    /\ handleAdjustmentChange(adjustment, defaultAdjustments[adjustment])

handleConfirmAdjustments ==
    /\ AdjustPanelShown
    /\ CanSave
    /\ setImages(images, TRUE)
    /\ activeTool' = NoTool
    /\ tempAdjustments' = NoAdj
    /\ UNCHANGED <<selectedImageId, prompt, isLoading, isEnhancing, error,
                   pendingEnhancement, isDesktop, tasks, now, results, call, parts, saved, pendingSource>>

\* history.current[historyIndex.current].find(i => i.id === activeImage.id)?.adjustments
\*   || defaultAdjustments
originalAdjustments ==
    LET snapshot == history[historyIndex + 1]
        k == FindIndex(snapshot, activeImage.id)
    IN  IF k # 0 THEN snapshot[k].adjustments ELSE defaultAdjustments

handleCancelAdjustments ==
    /\ AdjustPanelShown
    /\ LET target == activeImage.id
           set(img) == [img EXCEPT !.adjustments = originalAdjustments]
       IN  images' = MapImage(images, target, [n \in DOMAIN images |-> set(images[n])])
    /\ activeTool' = NoTool
    /\ tempAdjustments' = NoAdj
    /\ UNCHANGED <<selectedImageId, history, historyIndex, prompt, isLoading,
                   isEnhancing, error, pendingEnhancement, isDesktop, tasks, now,
                   results, call, parts, saved, pendingSource>>

\* ------------------------------------------------------------------ crop
updateImageCrop(id, newCrop) ==
    LET set(img) == [img EXCEPT !.crop = <<newCrop>>]
    IN  images' = MapImage(images, id, [n \in DOMAIN images |-> set(images[n])])

\* <img onLoad> is wired only while the active image has no crop; the rendered
\* size of an image this small is its natural size; activeAspectRatio is not
\* stored here: the load happens under whichever ratio is active.
onImageLoad(aspect) ==
    /\ hasActiveImage /\ activeImage.crop = NoCrop
    /\ updateImageCrop(selectedImageId,
                       onImageLoadCrop(ASPECT_RATIOS[aspect], activeImage.naturalWidth,
                                       activeImage.naturalHeight))
    /\ UNCHANGED <<selectedImageId, history, historyIndex, prompt, isLoading,
                   isEnhancing, error, pendingEnhancement, activeTool, tempAdjustments,
                   isDesktop, tasks, now, results, call, parts, saved, pendingSource>>

handleAspectRatioChange(aspect) ==
    /\ activeTool = "crop"
    /\ isDesktop => (Len(images) > 0 /\ ~isAnyLoading)
    /\ hasActiveImage
    /\ updateImageCrop(selectedImageId,
                       centerCrop(makeAspectCrop(ASPECT_RATIOS[aspect],
                                                 activeImage.naturalWidth,
                                                 activeImage.naturalHeight),
                                  activeImage.naturalWidth, activeImage.naturalHeight))
    /\ UNCHANGED <<selectedImageId, history, historyIndex, prompt, isLoading,
                   isEnhancing, error, pendingEnhancement, activeTool, tempAdjustments,
                   isDesktop, tasks, now, results, call, parts, saved, pendingSource>>

\* ReactCrop onChange; the cropper is disabled, and covered, while loading
CropChange(percentCrop) ==
    /\ hasActiveImage /\ activeTool = "crop" /\ ~isAnyLoading
    /\ updateImageCrop(selectedImageId, percentCrop)
    /\ UNCHANGED <<selectedImageId, history, historyIndex, prompt, isLoading,
                   isEnhancing, error, pendingEnhancement, activeTool, tempAdjustments,
                   isDesktop, tasks, now, results, call, parts, saved, pendingSource>>

handleConfirmCrop ==
    /\ activeTool = "crop"
    /\ isDesktop => Len(images) > 0
    /\ CanSave
    /\ setImages(images, TRUE)
    /\ activeTool' = NoTool
    /\ UNCHANGED <<selectedImageId, prompt, isLoading, isEnhancing, error,
                   pendingEnhancement, tempAdjustments, isDesktop, tasks, now,
                   results, call, parts, saved, pendingSource>>

\* history.current[historyIndex.current].find(i => i.id === activeImage.id)?.crop
originalCrop ==
    LET snapshot == history[historyIndex + 1]
        k == FindIndex(snapshot, activeImage.id)
    IN  IF k # 0 THEN snapshot[k].crop ELSE NoCrop

\* the Cancel button of the crop panel exists on mobile only
handleCancelCrop ==
    /\ ~isDesktop /\ activeTool = "crop"
    /\ IF hasActiveImage
       THEN LET target == activeImage.id
                set(img) == [img EXCEPT !.crop = originalCrop]
            IN  images' = MapImage(images, target, [n \in DOMAIN images |-> set(images[n])])
       ELSE UNCHANGED images
    /\ activeTool' = NoTool
    /\ UNCHANGED <<selectedImageId, history, historyIndex, prompt, isLoading,
                   isEnhancing, error, pendingEnhancement, tempAdjustments, isDesktop,
                   tasks, now, results, call, parts, saved, pendingSource>>

\* ------------------------------------------------------------ handleSave
OutputWidth == 1080

\* the mutant scales the height by the inverse of the crop's aspect ratio
createCroppedBlobSwapped(image, crop, outputWidth, adjustments) ==
    IF crop = NoCrop \/ crop[1].width = 0 \/ crop[1].height = 0
    THEN [width |-> outputWidth,
          height |-> (image.naturalHeight * outputWidth) \div image.naturalWidth,
          sx |-> 0, sy |-> 0,
          sw |-> 100 * image.naturalWidth, sh |-> 100 * image.naturalHeight,
          src |-> image.src, filter |-> adjustments]
    ELSE LET cropX      == crop[1].x * image.naturalWidth
             cropY      == crop[1].y * image.naturalHeight
             cropWidth  == crop[1].width * image.naturalWidth
             cropHeight == crop[1].height * image.naturalHeight
         IN  [width |-> outputWidth,
              height |-> (outputWidth * cropWidth) \div cropHeight,
              sx |-> cropX, sy |-> cropY, sw |-> cropWidth, sh |-> cropHeight,
              src |-> image.src, filter |-> adjustments]

\* createCroppedBlob, lines 1371-1410: the canvas it draws.  image is the
\* decoded <img> (src, naturalWidth, naturalHeight); crop is <<>> or <<crop>>.
\* The source rectangle sx, sy, sw, sh is in hundredths of a pixel, so that
\* (crop.x / 100) * naturalWidth is exact; canvas.height keeps the integer
\* part of the height assigned to it.
createCroppedBlob(image, crop, outputWidth, adjustments) ==
    IF crop = NoCrop \/ crop[1].width = 0 \/ crop[1].height = 0
    THEN [width |-> outputWidth,
          height |-> (image.naturalHeight * outputWidth) \div image.naturalWidth,
          sx |-> 0, sy |-> 0,
          sw |-> 100 * image.naturalWidth, sh |-> 100 * image.naturalHeight,
          src |-> image.src, filter |-> adjustments]
    ELSE LET cropX      == crop[1].x * image.naturalWidth
             cropY      == crop[1].y * image.naturalHeight
             cropWidth  == crop[1].width * image.naturalWidth
             cropHeight == crop[1].height * image.naturalHeight
         IN  [width |-> outputWidth,
              height |-> (outputWidth * cropHeight) \div cropWidth,
              sx |-> cropX, sy |-> cropY, sw |-> cropWidth, sh |-> cropHeight,
              src |-> image.src, filter |-> adjustments]

\* the mutant renders every image from the file uploaded, AI result or not
TempImageOriginal(img) ==
    [src |-> img.base64, naturalWidth |-> DimOf(img.base64).w,
     naturalHeight |-> DimOf(img.base64).h]

\* tempImage of handleSave: the image decoded from generatedBase64 || base64
TempImage(img) ==
    LET src == IF img.generatedBase64 # NoData THEN img.generatedBase64 ELSE img.base64
    IN  [src |-> src, naturalWidth |-> DimOf(src).w, naturalHeight |-> DimOf(src).h]

\* the blobs handleSave renders from a list, in list order
Blobs(imgs) ==
    [k \in 1..Len(imgs) |->
        createCroppedBlob(TempImage(imgs[k]), imgs[k].crop, OutputWidth,
                          imgs[k].adjustments)]

\* the Save buttons: disabled={isAnyLoading}; an empty list returns at once.
\* onSave closes the editor (App.tsx handleSaveImages), so a session has one.
HandleSaveStart ==
    /\ ~isAnyLoading
    /\ IF Len(images) = 0
       THEN UNCHANGED tasks
       ELSE /\ Len(saved) < MaxSaves
            /\ BagCardinality(tasks) < MaxTasks
            /\ tasks' = tasks (+) SetToBag({NewTask("save", "render", 0)})
    /\ UNCHANGED <<images, selectedImageId, history, historyIndex, prompt, isLoading,
                   isEnhancing, error, pendingEnhancement, activeTool, tempAdjustments,
                   isDesktop, now, results, call, parts, saved, pendingSource>>

\* every image was loaded and rendered (toBlob gives null for a canvas
\* without height): onSave({ images: blobs })
HandleSaveDone(task) ==
    /\ BagIn(task, tasks)
    /\ task.kind = "save"
    /\ \A k \in 1..Len(task.images) : Blobs(task.images)[k].height > 0
    /\ saved' = Append(saved, Blobs(task.images))
    /\ tasks' = tasks (-) SetToBag({task})
    /\ UNCHANGED <<images, selectedImageId, history, historyIndex, prompt, isLoading,
                   isEnhancing, error, pendingEnhancement, activeTool, tempAdjustments,
                   isDesktop, now, results, call, parts, pendingSource>>

\* what the catch of handleSave may receive: the error event of an image
\* that does not load, or the Error of createCroppedBlob
SaveFailures ==
    {<<"Falha ao preparar as imagens para salvar.">>,
     <<"Falha ao salvar: ", "Could not get canvas context">>,
     <<"Falha ao salvar: ", "Canvas is empty">>}

HandleSaveFail(task, message) ==
    /\ BagIn(task, tasks)
    /\ task.kind = "save"
    /\ error' = <<message>>
    /\ tasks' = tasks (-) SetToBag({task})
    /\ UNCHANGED <<images, selectedImageId, history, historyIndex, prompt, isLoading,
                   isEnhancing, pendingEnhancement, activeTool, tempAdjustments,
                   isDesktop, now, results, call, parts, saved, pendingSource>>

\* ------------------------------------------------------------------ mask
\* the mutant saves the stroke: setImages(..., true) in place of _setImages
stopDrawingSaves ==
    /\ activeTool = "brush" /\ hasActiveImage /\ ~isAnyLoading
    /\ CanSave
    /\ LET target == activeImage.id
           set(img) == [img EXCEPT !.maskBase64 = MaskData]
       IN  setImages(MapImage(images, target, [n \in DOMAIN images |-> set(images[n])]),
                     TRUE)
    /\ UNCHANGED <<selectedImageId, prompt, isLoading,
                   isEnhancing, error, pendingEnhancement, activeTool, tempAdjustments,
                   isDesktop, tasks, now, results, call, parts, saved, pendingSource>>

\* the mask canvas takes pointer events under the brush tool; the loading
\* overlay covers it while a request is loading
stopDrawing ==
    /\ activeTool = "brush" /\ hasActiveImage /\ ~isAnyLoading
    /\ LET target == activeImage.id
           set(img) == [img EXCEPT !.maskBase64 = MaskData]
       IN  images' = MapImage(images, target, [n \in DOMAIN images |-> set(images[n])])
    /\ UNCHANGED <<selectedImageId, history, historyIndex, prompt, isLoading,
                   isEnhancing, error, pendingEnhancement, activeTool, tempAdjustments,
                   isDesktop, tasks, now, results, call, parts, saved, pendingSource>>

handleClearMask ==
    /\ activeTool = "brush" /\ hasActiveImage
    /\ LET target == activeImage.id
           set(img) == [img EXCEPT !.maskBase64 = NoData]
       IN  images' = MapImage(images, target, [n \in DOMAIN images |-> set(images[n])])
    /\ UNCHANGED <<selectedImageId, history, historyIndex, prompt, isLoading,
                   isEnhancing, error, pendingEnhancement, activeTool, tempAdjustments,
                   isDesktop, tasks, now, results, call, parts, saved, pendingSource>>


\* ======================================================================
\* ImageEditor.tsx: AI requests
\* ======================================================================
\* generateContent outcomes the editor model takes for a failed call
EditFailures == {Blocked("SAFETY")}

\* the closure's activeImage
ClosureActive(t) == t.images[FindIndex(t.images, t.sel)]

\* editImageWithPrompt(...) is called: it builds the request and awaits generateContent
IssueCall(t) == [t EXCEPT !.stage = "call", !.calls = @ + 1]

\* ------------------------------------------------------- handleGenerate
GenerateShown ==
    IF isDesktop THEN Len(images) > 0 /\ pendingEnhancement = NoData
                 ELSE activeTool \in {"brush", "text"}

\* the mutant rejects only a call that lacks both the image and the prompt
handleGenerateCalledLax ==
    /\ IF ~hasActiveImage /\ prompt = ""
       THEN /\ error' = <<<<"Por favor, selecione uma imagem e descreva a edição.">>>>
            /\ UNCHANGED <<isLoading, tasks>>
       ELSE /\ BagCardinality(tasks) < MaxTasks
            /\ isLoading' = TRUE
            /\ error' = NoError
            /\ tasks' = tasks (+) SetToBag({NewTask("generate", "prep", 0)})
    /\ UNCHANGED <<images, selectedImageId, history, historyIndex, prompt, isEnhancing,
                   pendingEnhancement, activeTool, tempAdjustments, isDesktop, now,
                   results, call, parts, saved, pendingSource>>

\* the function handleGenerate, lines 480-487, up to its first await, called
\* in the current render
handleGenerateCalled ==
    /\ IF ~hasActiveImage \/ prompt = ""
       THEN /\ error' = <<<<"Por favor, selecione uma imagem e descreva a edição.">>>>
            /\ UNCHANGED <<isLoading, tasks>>
       ELSE /\ BagCardinality(tasks) < MaxTasks
            /\ isLoading' = TRUE
            /\ error' = NoError
            /\ tasks' = tasks (+) SetToBag({NewTask("generate", "prep", 0)})
    /\ UNCHANGED <<images, selectedImageId, history, historyIndex, prompt, isEnhancing,
                   pendingEnhancement, activeTool, tempAdjustments, isDesktop, now,
                   results, call, parts, saved, pendingSource>>

\* a click on a Generate button: disabled={isGenerateDisabled}
handleGenerate ==
    /\ GenerateShown /\ ~isGenerateDisabled
    /\ handleGenerateCalled

\* tempImg loaded, the canvas has a 2d context: the request is sent
GeneratePrepared(task) ==
    /\ BagIn(task, tasks)
    /\ task.kind = "generate" /\ task.stage = "prep"
    /\ tasks' = (tasks (-) SetToBag({task})) (+) SetToBag({IssueCall(task)})
    /\ UNCHANGED <<images, selectedImageId, history, historyIndex, prompt, isLoading,
                   isEnhancing, error, pendingEnhancement, activeTool, tempAdjustments,
                   isDesktop, now, results, call, parts, saved, pendingSource>>

\* tempImg fires error instead of load: the promise awaited at line 495 has no
\* reject path, so the handler is never resumed
GenerateSourceError(task) ==
    /\ BagIn(task, tasks)
    /\ task.kind = "generate" /\ task.stage = "prep"
    /\ tasks' = (tasks (-) SetToBag({task})) (+) SetToBag({[task EXCEPT !.stage = "stuck"]})
    /\ UNCHANGED <<images, selectedImageId, history, historyIndex, prompt, isLoading,
                   isEnhancing, error, pendingEnhancement, activeTool, tempAdjustments,
                   isDesktop, now, results, call, parts, saved, pendingSource>>

\* catch + finally of handleGenerate, for an Error with the given message
GenerateCaught(task, message) ==
    /\ error' = <<message>>
    /\ isLoading' = FALSE
    /\ activeTool' = NoTool
    /\ prompt' = ""
    /\ tasks' = tasks (-) SetToBag({task})
    /\ UNCHANGED <<images, selectedImageId, history, historyIndex, isEnhancing,
                   pendingEnhancement, tempAdjustments, isDesktop, now, results,
                   call, parts, saved, pendingSource>>

\* canvas.getContext('2d') returned null
GenerateNoContext(task) ==
    /\ BagIn(task, tasks)
    /\ task.kind = "generate" /\ task.stage = "prep"
    /\ GenerateCaught(task, <<"Could not get canvas context">>)

\* the mutant retries a rejected call instead of giving up
GenerateRejectedRetry(task, response) ==
    /\ BagIn(task, tasks)
    /\ task.kind = "generate" /\ task.stage = "call"
    /\ task.calls < 2
    /\ tasks' = (tasks (-) SetToBag({task})) (+) SetToBag({IssueCall(task)})
    /\ UNCHANGED <<images, selectedImageId, history, historyIndex, prompt, isLoading,
                   isEnhancing, error, pendingEnhancement, activeTool, tempAdjustments,
                   isDesktop, now, results, call, parts, saved, pendingSource>>

\* editImageWithPrompt rejected
GenerateRejected(task, response) ==
    /\ BagIn(task, tasks)
    /\ task.kind = "generate" /\ task.stage = "call"
    /\ GenerateCaught(task, editImageWithPromptResult(response).value)

\* editImageWithPrompt resolved: the result awaits getImageDimensions and fetch
GenerateResolved(task) ==
    /\ BagIn(task, tasks)
    /\ task.kind = "generate" /\ task.stage = "call"
    /\ results < MaxResults
    /\ results' = results + 1
    /\ tasks' = (tasks (-) SetToBag({task}))
                (+) SetToBag({[task EXCEPT !.stage = "decode",
                                           !.result = ResultData[results + 1]]})
    /\ UNCHANGED <<images, selectedImageId, history, historyIndex, prompt, isLoading,
                   isEnhancing, error, pendingEnhancement, activeTool, tempAdjustments,
                   isDesktop, now, call, parts, saved, pendingSource>>

\* the result cannot be decoded: getImageDimensions rejects with an event
GenerateDecodeFail(task) ==
    /\ BagIn(task, tasks)
    /\ task.kind = "generate" /\ task.stage = "decode"
    /\ GenerateCaught(task, <<"Ocorreu um erro inesperado ao gerar a imagem.">>)

\* setImages(currentImages => currentImages.map(...), true) on the closure's images
GenerateApplied(task) ==
    /\ BagIn(task, tasks)
    /\ task.kind = "generate" /\ task.stage = "decode"
    /\ CanSave
    /\ LET apply(img) == ApplyResult(img, task.result, "generated-image.png")
       IN  setImages(MapImage(task.images, task.sel,
                              [n \in DOMAIN task.images |-> apply(task.images[n])]),
                     TRUE)
    /\ isLoading' = FALSE
    /\ activeTool' = NoTool
    /\ prompt' = ""
    /\ tasks' = tasks (-) SetToBag({task})
    /\ UNCHANGED <<selectedImageId, isEnhancing, error, pendingEnhancement,
                   tempAdjustments, isDesktop, now, results, call, parts, saved, pendingSource>>

\* --------------------------------------------------- handleEnhanceImage
\* the preset buttons: disabled={isEnhancing}; every preset prompt is non-empty
EnhanceShown == activeTool = "enhance" /\ (isDesktop => Len(images) > 0)

handleEnhanceImage ==
    /\ EnhanceShown /\ ~isEnhancing
    /\ BagCardinality(tasks) < MaxTasks
    /\ IF ~hasActiveImage
       THEN /\ error' = <<<<"Por favor, selecione uma imagem para aprimorar.">>>>
            /\ UNCHANGED <<isEnhancing, tasks>>
       ELSE /\ isEnhancing' = TRUE
            /\ error' = NoError
            /\ tasks' = tasks (+) SetToBag({NewTask("enhance", "prep", 0)})
    /\ UNCHANGED <<images, selectedImageId, history, historyIndex, prompt, isLoading,
                   pendingEnhancement, activeTool, tempAdjustments, isDesktop, now,
                   results, call, parts, saved, pendingSource>>

EnhancePrepared(task) ==
    /\ BagIn(task, tasks)
    /\ task.kind = "enhance" /\ task.stage = "prep"
    /\ tasks' = (tasks (-) SetToBag({task})) (+) SetToBag({IssueCall(task)})
    /\ UNCHANGED <<images, selectedImageId, history, historyIndex, prompt, isLoading,
                   isEnhancing, error, pendingEnhancement, activeTool, tempAdjustments,
                   isDesktop, now, results, call, parts, saved, pendingSource>>

\* tempImg fires error instead of load (line 554): the handler is never resumed
EnhanceSourceError(task) ==
    /\ BagIn(task, tasks)
    /\ task.kind = "enhance" /\ task.stage = "prep"
    /\ tasks' = (tasks (-) SetToBag({task})) (+) SetToBag({[task EXCEPT !.stage = "stuck"]})
    /\ UNCHANGED <<images, selectedImageId, history, historyIndex, prompt, isLoading,
                   isEnhancing, error, pendingEnhancement, activeTool, tempAdjustments,
                   isDesktop, now, results, call, parts, saved, pendingSource>>

\* catch + finally of handleEnhanceImage
EnhanceCaught(task, message) ==
    /\ error' = <<message>>
    /\ isEnhancing' = FALSE
    /\ activeTool' = NoTool
    /\ tasks' = tasks (-) SetToBag({task})
    /\ UNCHANGED <<images, selectedImageId, history, historyIndex, prompt, isLoading,
                   pendingEnhancement, tempAdjustments, isDesktop, now, results,
                   call, parts, saved, pendingSource>>

EnhanceNoContext(task) ==
    /\ BagIn(task, tasks)
    /\ task.kind = "enhance" /\ task.stage = "prep"
    /\ EnhanceCaught(task, <<"Could not get canvas context">>)

EnhanceRejected(task, response) ==
    /\ BagIn(task, tasks)
    /\ task.kind = "enhance" /\ task.stage = "call"
    /\ EnhanceCaught(task, editImageWithPromptResult(response).value)

\* the mutant applies the result at once instead of asking for confirmation
EnhanceResolvedApplies(task) ==
    /\ BagIn(task, tasks)
    /\ task.kind = "enhance" /\ task.stage = "call"
    /\ results < MaxResults
    /\ results' = results + 1
    /\ pendingEnhancement' = ResultData[results + 1]
    /\ LET apply(img) == ApplyResult(img, ResultData[results + 1], "enhanced-image.png")
       IN  setImages(MapImage(images, selectedImageId,
                              [n \in DOMAIN images |-> apply(images[n])]),
                     FALSE)
    /\ isEnhancing' = FALSE
    /\ activeTool' = NoTool
    /\ tasks' = tasks (-) SetToBag({task})
    /\ pendingSource' = task.sel
    /\ UNCHANGED <<selectedImageId, prompt, isLoading, error, tempAdjustments,
                   isDesktop, now, call, parts, saved>>

\* setPendingEnhancement(resultBase64), then finally
EnhanceResolved(task) ==
    /\ BagIn(task, tasks)
    /\ task.kind = "enhance" /\ task.stage = "call"
    /\ results < MaxResults
    /\ results' = results + 1
    /\ pendingEnhancement' = ResultData[results + 1]
    /\ isEnhancing' = FALSE
    /\ activeTool' = NoTool
    /\ tasks' = tasks (-) SetToBag({task})
    /\ pendingSource' = task.sel
    /\ UNCHANGED <<images, selectedImageId, history, historyIndex, prompt, isLoading,
                   error, tempAdjustments, isDesktop, now, call, parts, saved>>

\* ------------------------------------- enhancement review (desktop panel)
ReviewShown == isDesktop /\ Len(images) > 0 /\ pendingEnhancement # NoData

handleConfirmEnhancement ==
    /\ ReviewShown
    /\ BagCardinality(tasks) < MaxTasks
    /\ IF selectedImageId = NoId
       THEN UNCHANGED <<isLoading, tasks>>
       ELSE /\ isLoading' = TRUE
            /\ tasks' = tasks (+) SetToBag({NewTask("confirm", "decode", 0)})
    /\ UNCHANGED <<images, selectedImageId, history, historyIndex, prompt, isEnhancing,
                   error, pendingEnhancement, activeTool, tempAdjustments, isDesktop,
                   now, results, call, parts, saved, pendingSource>>

ConfirmApplied(task) ==
    /\ BagIn(task, tasks)
    /\ task.kind = "confirm"
    /\ CanSave
    /\ LET apply(img) == ApplyResult(img, task.pending, "enhanced-image.png")
       IN  setImages(MapImage(task.images, task.sel,
                              [n \in DOMAIN task.images |-> apply(task.images[n])]),
                     TRUE)
    /\ pendingEnhancement' = NoData
    /\ isLoading' = FALSE
    /\ tasks' = tasks (-) SetToBag({task})
    /\ pendingSource' = NoId
    /\ UNCHANGED <<selectedImageId, prompt, isEnhancing, error, activeTool,
                   tempAdjustments, isDesktop, now, results, call, parts, saved>>

ConfirmFail(task) ==
    /\ BagIn(task, tasks)
    /\ task.kind = "confirm"
    /\ error' = <<<<"Falha ao confirmar aprimoramento.">>>>
    /\ pendingEnhancement' = NoData
    /\ isLoading' = FALSE
    /\ tasks' = tasks (-) SetToBag({task})
    /\ pendingSource' = NoId
    /\ UNCHANGED <<images, selectedImageId, history, historyIndex, prompt, isEnhancing,
                   activeTool, tempAdjustments, isDesktop, now, results, call, parts, saved>>

handleCancelEnhancement ==
    /\ ReviewShown
    /\ pendingEnhancement' = NoData
    /\ pendingSource' = NoId
    /\ UNCHANGED <<images, selectedImageId, history, historyIndex, prompt, isLoading,
                   isEnhancing, error, activeTool, tempAdjustments, isDesktop, tasks,
                   now, results, call, parts, saved>>

\* ======================================================================
\* services/geminiService.ts: one editImageWithPrompt call at a time
\* ======================================================================
\* arguments the model passes: a data URL and a raw base64 string, two MIME
\* types, a prompt and an empty prompt, and a mask that is null, "" or a data URL
DataUrls    == {<<"data:image/png;base64", ",", "AAAA">>, <<"AAAA">>}
MimeTypes   == {"image/png", "image/jpeg"}
PromptTexts == {<<"remova o fundo">>, <<>>}
MaskArgs    == {<<>>, <<<<>>>>, <<<<"data:image/png;base64", ",", "MMMM">>>>}

\* what generateContent may do
Responses ==
    {ThrewError(<<"fetch failed">>), ThrewError(<<FailedPhrase, " Motivo: quota.">>),
     ThrewOther, NoCandidate, Blocked("SAFETY"), Blocked("RECITATION"), Blocked("STOP"),
     Content(<<>>), Content(<<ImagePart(<<"r1">>)>>), Content(<<TextPart(<<"ola">>)>>),
     Content(<<TextPart(<<"ola">>), ImagePart(<<"r1">>)>>)}

InitEdit ==
    /\ InitEditor
    /\ now = MaxClock
    /\ isDesktop = TRUE
    /\ tasks = EmptyBag
    /\ call = NoCall
    /\ parts = <<>>

\* lines 24-71: the request is built and generateContent is awaited
editImageWithPrompt(base64Image, mimeType, promptText, maskBase64) ==
    /\ call.stage = "idle"
    /\ parts' = buildParts(base64Image, mimeType, promptText, maskBase64)
    /\ call' = [call EXCEPT !.stage = "awaiting", !.base64Image = base64Image,
                            !.mimeType = mimeType, !.prompt = promptText,
                            !.maskBase64 = maskBase64]
    /\ UNCHANGED editorVars

\* lines 73-107: generateContent settled; the call resolves or rejects
generateContentSettled(response) ==
    /\ call.stage = "awaiting"
    /\ call' = [call EXCEPT !.stage = "settled",
                            !.outcome = editImageWithPromptResult(response)]
    /\ UNCHANGED <<parts, images, selectedImageId, history, historyIndex, prompt,
                   isLoading, isEnhancing, error, pendingEnhancement, activeTool,
                   tempAdjustments, isDesktop, tasks, now, results, saved, pendingSource>>

\* the caller has taken the outcome; the service is ready for another call
EditReturned ==
    /\ call.stage = "settled"
    /\ call' = NoCall
    /\ parts' = <<>>
    /\ UNCHANGED editorVars

NextEdit ==
    \/ \E b \in DataUrls, t \in MimeTypes, p \in PromptTexts, m \in MaskArgs :
          editImageWithPrompt(b, t, p, m)
    \/ \E r \in Responses : generateContentSettled(r)
    \/ EditReturned

SpecEdit == InitEdit /\ [][NextEdit]_vars

\* ======================================================================
\* The editor.  The layout (isDesktop) is chosen when the editor is mounted.
\* Next takes every handler except the ephemeral edits of the crop and
\* adjustment panels, which NextTools takes instead of the AI requests.
\* ======================================================================
Next ==
    \/ undo
    \/ redo
    \/ \E task \in BagToSet(tasks) : InitializeImagesDone(task)
    \/ \E task \in BagToSet(tasks) : InitializeImagesFail(task)
    \/ \E n \in BatchSizes : Len(images) + n <= MaxImages /\ HandleImageUploadStart(n)
    \/ \E task \in BagToSet(tasks) : HandleImageUploadDone(task)
    \/ \E task \in BagToSet(tasks) : HandleImageUploadFail(task)
    \/ \E id \in Ids(images) : handleRemoveImage(id)
    \/ \E id \in Ids(images) : SelectImage(id)
    \/ \E p \in Prompts : SetPrompt(p)
    \/ \E tool \in Tools : handleToolSelect(tool)
    \/ MobileCancelPrompt
    \/ MobileCloseEnhance
    \/ handleConfirmAdjustments
    \/ handleCancelAdjustments
    \/ handleConfirmCrop
    \/ handleCancelCrop
    \/ stopDrawing
    \/ handleClearMask
    \/ handleGenerate
    \/ \E task \in BagToSet(tasks) : GeneratePrepared(task)
    \/ \E task \in BagToSet(tasks) : GenerateNoContext(task)
    \/ \E task \in BagToSet(tasks) : \E r \in EditFailures : GenerateRejected(task, r)
    \/ \E task \in BagToSet(tasks) : GenerateResolved(task)
    \/ \E task \in BagToSet(tasks) : GenerateDecodeFail(task)
    \/ \E task \in BagToSet(tasks) : GenerateApplied(task)
    \/ handleEnhanceImage
    \/ \E task \in BagToSet(tasks) : EnhancePrepared(task)
    \/ \E task \in BagToSet(tasks) : EnhanceNoContext(task)
    \/ \E task \in BagToSet(tasks) : \E r \in EditFailures : EnhanceRejected(task, r)
    \/ \E task \in BagToSet(tasks) : EnhanceResolved(task)
    \/ handleConfirmEnhancement
    \/ \E task \in BagToSet(tasks) : ConfirmApplied(task)
    \/ \E task \in BagToSet(tasks) : ConfirmFail(task)
    \/ handleCancelEnhancement

Spec == Init /\ [][Next]_vars

\* The editing panels: every handler that is not an AI request, the ephemeral
\* crop and adjustment edits and the layout switch included.
NextTools ==
    \/ undo
    \/ redo
    \/ \E task \in BagToSet(tasks) : InitializeImagesDone(task)
    \/ \E n \in BatchSizes : Len(images) + n <= MaxImages /\ HandleImageUploadStart(n)
    \/ \E task \in BagToSet(tasks) : HandleImageUploadDone(task)
    \/ \E id \in Ids(images) : handleRemoveImage(id)
    \/ \E id \in Ids(images) : SelectImage(id)
    \/ MediaChange
    \/ \E tool \in Tools : handleToolSelect(tool)
    \/ \E e \in SliderEvents : handleAdjustmentChange(e[1], e[2])
    \/ \E e \in SliderEvents : handleResetAdjustment(e[1])
    \/ handleConfirmAdjustments
    \/ handleCancelAdjustments
    \/ \E a \in AspectClicks : onImageLoad(a)
    \/ \E a \in AspectClicks : handleAspectRatioChange(a)
    \/ \E c \in CropDrags : CropChange(c)
    \/ handleConfirmCrop
    \/ handleCancelCrop
    \/ stopDrawing
    \/ handleClearMask

SpecTools == Init /\ [][NextTools]_vars

\* The image list: initial load, uploads, removal, selection, undo and redo,
\* with room for MaxListImages images and a clock that can still move once.
InitList ==
    /\ InitEditor
    /\ now = MaxClock - 1
    /\ isDesktop \in BOOLEAN
    /\ Mounted
    /\ call = NoCall
    /\ parts = <<>>

NextList ==
    \/ undo
    \/ redo
    \/ \E task \in BagToSet(tasks) : InitializeImagesDone(task)
    \/ \E task \in BagToSet(tasks) : InitializeImagesFail(task)
    \/ \E n \in BatchSizes : Len(images) + n <= MaxListImages /\ HandleImageUploadStart(n)
    \/ \E task \in BagToSet(tasks) : HandleImageUploadDone(task)
    \/ \E task \in BagToSet(tasks) : HandleImageUploadFail(task)
    \/ \E id \in Ids(images) : handleRemoveImage(id)
    \/ \E id \in Ids(images) : SelectImage(id)

SpecList == InitList /\ [][NextList]_vars

\* The adjustment panel together with the edits that can interleave with it:
\* the sliders, Reset, Confirm and Cancel, undo and redo, and handleGenerate.
NextAdjust ==
    \/ undo
    \/ redo
    \/ \E task \in BagToSet(tasks) : InitializeImagesDone(task)
    \/ \E p \in Prompts : SetPrompt(p)
    \/ \E tool \in Tools : handleToolSelect(tool)
    \/ \E e \in SliderEvents : handleAdjustmentChange(e[1], e[2])
    \/ \E e \in SliderEvents : handleResetAdjustment(e[1])
    \/ handleConfirmAdjustments
    \/ handleCancelAdjustments
    \/ handleGenerate
    \/ \E task \in BagToSet(tasks) : GeneratePrepared(task)
    \/ \E task \in BagToSet(tasks) : \E r \in EditFailures : GenerateRejected(task, r)
    \/ \E task \in BagToSet(tasks) : GenerateResolved(task)
    \/ \E task \in BagToSet(tasks) : GenerateApplied(task)

SpecAdjust == Init /\ [][NextAdjust]_vars

\* The crop panel and the export, from the state a one-file upload leaves:
\* the file is one of Files, the image has no crop yet.
InitCrop ==
    /\ \E d \in Files :
          LET img == [UploadedImage(<<MaxClock, 0>>, FALSE) EXCEPT
                          !.base64 = d,
                          !.naturalWidth = DimOf(d).w, !.naturalHeight = DimOf(d).h]
          IN  /\ images = <<img>>
              /\ history = <<<<img>>>>
    /\ historyIndex = 0
    /\ selectedImageId = <<MaxClock, 0>>
    /\ prompt = ""
    /\ isLoading = FALSE
    /\ isEnhancing = FALSE
    /\ error = NoError
    /\ pendingEnhancement = NoData
    /\ activeTool = NoTool
    /\ tempAdjustments = NoAdj
    /\ isDesktop \in BOOLEAN
    /\ tasks = EmptyBag
    /\ now = MaxClock
    /\ results = 0
    /\ call = NoCall
    /\ parts = <<>>
    /\ saved = <<>>
    /\ pendingSource = NoId

NextCrop ==
    \/ undo
    \/ redo
    \/ \E tool \in {"crop", "brush"} : handleToolSelect(tool)
    \/ \E a \in AspectClicks : onImageLoad(a)
    \/ \E a \in AspectClicks : handleAspectRatioChange(a)
    \/ \E c \in CropDrags \cup CropPresses : CropChange(c)
    \/ handleConfirmCrop
    \/ handleCancelCrop
    \/ HandleSaveStart
    \/ \E task \in BagToSet(tasks) : HandleSaveDone(task)
    \/ \E task \in BagToSet(tasks) : \E m \in SaveFailures : HandleSaveFail(task, m)

SpecCrop == InitCrop /\ [][NextCrop]_vars

\* The export of a list of up to MaxListImages images, one of which may
\* carry an AI result, in the desktop layout.
InitSave ==
    /\ InitEditor
    /\ now = MaxClock - 1
    /\ isDesktop = TRUE
    /\ Mounted
    /\ call = NoCall
    /\ parts = <<>>

NextSave ==
    \/ \E task \in BagToSet(tasks) : InitializeImagesDone(task)
    \/ \E n \in BatchSizes : Len(images) + n <= MaxListImages /\ HandleImageUploadStart(n)
    \/ \E task \in BagToSet(tasks) : HandleImageUploadDone(task)
    \/ \E id \in Ids(images) : handleRemoveImage(id)
    \/ \E id \in Ids(images) : SelectImage(id)
    \/ \E p \in Prompts : SetPrompt(p)
    \/ handleGenerate
    \/ \E task \in BagToSet(tasks) : GeneratePrepared(task)
    \/ \E task \in BagToSet(tasks) : GenerateResolved(task)
    \/ \E task \in BagToSet(tasks) : GenerateApplied(task)
    \/ HandleSaveStart
    \/ \E task \in BagToSet(tasks) : HandleSaveDone(task)
    \/ \E task \in BagToSet(tasks) : \E m \in SaveFailures : HandleSaveFail(task, m)

SpecSave == InitSave /\ [][NextSave]_vars

\* handleGenerate as a function: it is called in any render that shows a
\* Generate button, whether or not the button's disabled attribute would let
\* a click through (the attribute repeats the function's own validation).
NextGenerate ==
    \/ undo
    \/ redo
    \/ \E task \in BagToSet(tasks) : InitializeImagesDone(task)
    \/ \E id \in Ids(images) : handleRemoveImage(id)
    \/ \E p \in Prompts : SetPrompt(p)
    \/ \E tool \in Tools : handleToolSelect(tool)
    \/ MobileCancelPrompt
    \/ GenerateShown /\ ~isAnyLoading /\ handleGenerateCalled
    \/ \E task \in BagToSet(tasks) : GeneratePrepared(task)
    \/ \E task \in BagToSet(tasks) : \E r \in EditFailures : GenerateRejected(task, r)
    \/ \E task \in BagToSet(tasks) : GenerateResolved(task)
    \/ \E task \in BagToSet(tasks) : GenerateApplied(task)

SpecGenerate == Init /\ [][NextGenerate]_vars

\* A request of handleGenerate in flight over a list of up to MaxListImages
\* images, together with what the user can do meanwhile: undo and redo (the
\* keyboard shortcut is never disabled), and on mobile uploads and thumbnail
\* clicks.
NextRace ==
    \/ undo
    \/ redo
    \/ \E task \in BagToSet(tasks) : InitializeImagesDone(task)
    \/ \E n \in BatchSizes : Len(images) + n <= MaxListImages /\ HandleImageUploadStart(n)
    \/ \E task \in BagToSet(tasks) : HandleImageUploadDone(task)
    \/ \E id \in Ids(images) : SelectImage(id)
    \/ \E p \in Prompts : SetPrompt(p)
    \/ \E tool \in {"brush"} : handleToolSelect(tool)
    \/ handleGenerate
    \/ \E task \in BagToSet(tasks) : GeneratePrepared(task)
    \/ \E task \in BagToSet(tasks) : GenerateResolved(task)
    \/ \E task \in BagToSet(tasks) : GenerateApplied(task)

SpecRace == InitList /\ [][NextRace]_vars

\* The review of an enhancement in the desktop layout, over a list of up to
\* MaxListImages images, with what the user can do until it is confirmed;
\* files are added while a result is under review.
NextEnhance ==
    \/ undo
    \/ redo
    \/ \E task \in BagToSet(tasks) : InitializeImagesDone(task)
    \/ \E n \in BatchSizes : Len(images) + n <= MaxListImages /\ pendingEnhancement # NoData /\ HandleImageUploadStart(n)
    \/ \E task \in BagToSet(tasks) : HandleImageUploadDone(task)
    \/ \E id \in Ids(images) : handleRemoveImage(id)
    \/ \E id \in Ids(images) : SelectImage(id)
    \/ \E tool \in {"enhance"} : handleToolSelect(tool)
    \/ handleEnhanceImage
    \/ \E task \in BagToSet(tasks) : EnhancePrepared(task)
    \/ \E task \in BagToSet(tasks) : EnhanceResolved(task)
    \/ handleConfirmEnhancement
    \/ \E task \in BagToSet(tasks) : ConfirmApplied(task)
    \/ handleCancelEnhancement

SpecEnhance == InitSave /\ [][NextEnhance]_vars

\* The AI requests alone, with the fairness their awaits justify: the load of
\* the source image, the call to the endpoint and the decoding of the result
\* each eventually succeed or fail.  (Without fairness a handler that is
\* never resumed is a handler whose next step is never taken.)
GenerateStep(task) ==
    \/ GeneratePrepared(task)
    \/ GenerateSourceError(task)
    \/ GenerateNoContext(task)
    \/ \E r \in EditFailures : GenerateRejected(task, r)
    \/ GenerateResolved(task)
    \/ GenerateDecodeFail(task)
    \/ GenerateApplied(task)

EnhanceStep(task) ==
    \/ EnhancePrepared(task)
    \/ EnhanceSourceError(task)
    \/ EnhanceNoContext(task)
    \/ \E r \in EditFailures : EnhanceRejected(task, r)
    \/ EnhanceResolved(task)

NextAi ==
    \/ undo
    \/ redo
    \/ \E task \in BagToSet(tasks) : InitializeImagesDone(task)
    \/ \E p \in Prompts : SetPrompt(p)
    \/ \E tool \in Tools : handleToolSelect(tool)
    \/ MobileCancelPrompt
    \/ handleGenerate
    \/ \E task \in BagToSet(tasks) : GenerateStep(task)
    \/ handleEnhanceImage
    \/ \E task \in BagToSet(tasks) : EnhanceStep(task)
    \/ handleConfirmEnhancement
    \/ \E task \in BagToSet(tasks) : ConfirmApplied(task)
    \/ \E task \in BagToSet(tasks) : ConfirmFail(task)
    \/ handleCancelEnhancement

Resumed ==
    /\ WF_vars(\E task \in BagToSet(tasks) : GenerateStep(task))
    /\ WF_vars(\E task \in BagToSet(tasks) : EnhanceStep(task))
    /\ WF_vars(\E task \in BagToSet(tasks) : ConfirmApplied(task) \/ ConfirmFail(task))

SpecLive == Init /\ [][NextAi]_vars /\ Resumed

\* ======================================================================
\* Properties
\* ======================================================================
\* the AI image-edit requests in flight
AiKinds == {"generate", "enhance"}
AiTasks == {t \in BagToSet(tasks) : t.kind \in AiKinds}

\* a step of a handler that calls setImages(..., true)
SaveStep ==
    \/ \E task \in BagToSet(tasks) : HandleImageUploadDone(task)
    \/ \E task \in BagToSet(tasks) : GenerateApplied(task)
    \/ \E task \in BagToSet(tasks) : ConfirmApplied(task)
    \/ \E id \in Ids(images) : handleRemoveImage(id)
    \/ handleConfirmCrop
    \/ handleConfirmAdjustments

\* the data of an AI result is applied to an image of the list or of a snapshot
Applied(data) ==
    \/ \E k \in 1..Len(images) : images[k].generatedBase64 = data
    \/ \E j \in 1..Len(history) :
          \E k \in 1..Len(history[j]) : history[j][k].generatedBase64 = data

\* C1: historyIndex is -1 exactly when history is empty, and otherwise
\* 0 <= historyIndex <= history.length - 1, in every reachable state.
C1_HistoryIndexInBounds ==
    /\ (historyIndex = -1) <=> (history = <<>>)
    /\ history # <<>> => (0 <= historyIndex /\ historyIndex <= Len(history) - 1)

\* an AI result was saved as the second snapshot and then undone
C1_Witness ==
    /\ Len(history) >= 2
    /\ historyIndex = 0
    /\ \E k \in 1..Len(history[2]) : history[2][k].generatedBase64 # NoData

\* C2: a history-saving edit at historyIndex = i leaves the snapshots 0..i
\* followed by the new image list, discards every snapshot after i, moves
\* historyIndex to i + 1 and makes redo unavailable; nothing is discarded when
\* i was the last index; redo becomes available again only by an undo.
C2_SaveTruncatesRedoTail ==
    [][ /\ SaveStep =>
            /\ history' = Append(SubSeq(history, 1, historyIndex + 1), images')
            /\ historyIndex' = historyIndex + 1
            /\ ~(historyIndex' < Len(history') - 1)
            /\ historyIndex = Len(history) - 1 =>
                  SubSeq(history', 1, Len(history)) = history
        /\ (~canRedo /\ historyIndex' < Len(history') - 1) =>
              (historyIndex' = historyIndex - 1 /\ history' = history)
      ]_vars

\* the last image was removed, the removal undone, and a save then discarded
\* the snapshot of the empty list: the selection is still null
C2_Witness ==
    /\ selectedImageId = NoId
    /\ Len(images) > 0
    /\ historyIndex >= 1
    /\ ~canRedo
    /\ \A j \in 1..Len(history) : history[j] # <<>>

\* C3: undo and redo leave the snapshots alone; each moves historyIndex by
\* exactly one and shows the snapshot at the new index, or changes nothing of
\* the image list, the history and the pointer at its end of the history.
C3_UndoRedoFrame ==
    [][ /\ undo =>
            /\ history' = history
            /\ IF historyIndex > 0
               THEN historyIndex' = historyIndex - 1 /\ images' = history[historyIndex' + 1]
               ELSE historyIndex' = historyIndex /\ images' = images
        /\ redo =>
            /\ history' = history
            /\ IF historyIndex < Len(history) - 1
               THEN historyIndex' = historyIndex + 1 /\ images' = history[historyIndex' + 1]
               ELSE historyIndex' = historyIndex /\ images' = images
      ]_vars

\* an undo has shown a snapshot that differs from the one after it
C3_Witness ==
    /\ canRedo
    /\ images = history[historyIndex + 1]
    /\ images # history[historyIndex + 2]

\* C4: at most one AI image-edit request (handleGenerate or
\* handleEnhanceImage) is in flight at any time.
C4_AtMostOneRequest ==
    /\ Cardinality(AiTasks) <= 1
    /\ \A t \in AiTasks : CopiesIn(t, tasks) = 1

\* a step of a user action that is handled synchronously
UserStep ==
    \/ undo
    \/ redo
    \/ \E id \in Ids(images) : handleRemoveImage(id)
    \/ \E id \in Ids(images) : SelectImage(id)
    \/ handleConfirmCrop
    \/ handleCancelCrop
    \/ handleConfirmAdjustments
    \/ handleCancelAdjustments
    \/ stopDrawing
    \/ handleClearMask

\* C5: while an AI image-edit request is in flight (isLoading or isEnhancing
\* true), no other user action changes the image list, the history, the
\* history pointer or the selected image.
C5_LoadingBlocksActions ==
    [][ (AiTasks # {} /\ isAnyLoading /\ UserStep) =>
            UNCHANGED <<images, history, historyIndex, selectedImageId>> ]_vars

\* the failure steps of the two AI handlers
GenerateFailed(task) ==
    \/ GenerateNoContext(task)
    \/ \E r \in EditFailures : GenerateRejected(task, r)
    \/ GenerateDecodeFail(task)

EnhanceFailed(task) ==
    \/ EnhanceNoContext(task)
    \/ \E r \in EditFailures : EnhanceRejected(task, r)

\* C6: when an AI image-edit request fails, error is a message, the flag of
\* the request is false, and the image list, the history, the pointer and
\* pendingEnhancement are as they were when the request started (for
\* handleGenerate the image list at the start is the one its closure holds).
C6_FailureRestoresState ==
    [][ \A task \in BagToSet(tasks) :
          /\ GenerateFailed(task) =>
                /\ error' # NoError
                /\ ~isLoading'
                /\ images' = task.images
                /\ UNCHANGED <<history, historyIndex, pendingEnhancement>>
          /\ EnhanceFailed(task) =>
                /\ error' # NoError
                /\ ~isEnhancing'
                /\ UNCHANGED <<images, history, historyIndex, pendingEnhancement>>
      ]_vars

\* C7 (as the code has it): an invocation that passed its validation has
\* issued no call while it prepares the image and exactly one from then on,
\* so never a second one; and a call that awaits its response leaves that
\* stage only when the response is taken (resolved or rejected), never by a
\* cancellation.
C7_AtMostOneCall ==
    [][ /\ \A t \in {x \in BagToSet(tasks') : x.kind \in AiKinds} :
              /\ t.stage = "prep" => t.calls = 0
              /\ t.stage \in {"call", "decode"} => t.calls = 1
        /\ \A task \in AiTasks :
              (task.stage = "call" /\ CopiesIn(task, tasks') < CopiesIn(task, tasks)) =>
                  \/ GenerateResolved(task)
                  \/ EnhanceResolved(task)
                  \/ \E r \in EditFailures : GenerateRejected(task, r)
                  \/ \E r \in EditFailures : EnhanceRejected(task, r)
      ]_vars

\* a request has issued its one call and awaits the response
C7_Witness == \E t \in AiTasks : t.stage = "call" /\ t.calls = 1

\* a step in which an AI handler returns
Settled(task) ==
    \/ GenerateFailed(task)
    \/ GenerateApplied(task)
    \/ EnhanceFailed(task)
    \/ EnhanceResolved(task)

\* C7 (as stated): every invocation that passes its validation issues
\* exactly one call to the image-edit endpoint.
C7_ExactlyOneCall ==
    [][ \A task \in AiTasks : Settled(task) => task.calls = 1 ]_vars

\* lines 1071-1087: the desktop layout shows the error under the Generate
\* button, inside the block of a non-empty list with no pending enhancement;
\* the mobile layout has no element that shows it
ErrorRendered == isDesktop /\ Len(images) > 0 /\ pendingEnhancement = NoData

\* C8: whenever error is non-null, the message is rendered in the layout shown.
C8_ErrorRendered == error # NoError => ErrorRendered

\* a step that ends the review of a pending enhancement
ConfirmStep ==
    \/ \E task \in BagToSet(tasks) : ConfirmApplied(task)
    \/ \E task \in BagToSet(tasks) : ConfirmFail(task)

\* C9 (as the code has it): the result of an enhancement is applied to no
\* image of the list or of the history while it is pending; the step that
\* receives it changes neither the list, the history nor the pointer;
\* handleCancelEnhancement clears it and changes none of the three; a
\* confirmation that decodes the result saves exactly one snapshot after the
\* current one and clears it, the snapshot being the list the handler was
\* invoked on with the result applied to the selected image (to none when the
\* selection is not in that list); one that fails to decode it saves none and
\* clears it.
C9_AppliedOnlyOnConfirm ==
    [][ /\ pendingEnhancement' # NoData => ~Applied(pendingEnhancement)'
        /\ (\E task \in BagToSet(tasks) : EnhanceResolved(task)) =>
              /\ pendingEnhancement' # NoData
              /\ UNCHANGED <<images, history, historyIndex>>
        /\ handleCancelEnhancement =>
              /\ pendingEnhancement' = NoData
              /\ UNCHANGED <<images, history, historyIndex>>
        /\ \A task \in BagToSet(tasks) :
              /\ ConfirmApplied(task) =>
                    /\ pendingEnhancement' = NoData
                    /\ history' = Append(SubSeq(history, 1, historyIndex + 1), images')
                    /\ historyIndex' = historyIndex + 1
                    /\ Len(images') = Len(task.images)
                    /\ \A k \in 1..Len(images') :
                          IF task.images[k].id = task.sel
                          THEN images'[k].generatedBase64 = task.pending
                          ELSE images'[k] = task.images[k]
              /\ ConfirmFail(task) =>
                    /\ pendingEnhancement' = NoData
                    /\ UNCHANGED <<images, history, historyIndex>>
      ]_vars

\* a confirmed enhancement is the current snapshot
C9_Witness ==
    /\ pendingEnhancement = NoData
    /\ historyIndex >= 0
    /\ history[historyIndex + 1] = images
    /\ \E k \in 1..Len(images) : images[k].file = "enhanced-image.png"

\* C9 (as stated): from the success of handleEnhanceImage until
\* handleConfirmEnhancement runs, the image list, the history and the pointer
\* are unchanged.
C9_UnchangedUntilConfirm ==
    [][ ( /\ pendingEnhancement # NoData
          /\ pendingEnhancement' = pendingEnhancement
          /\ \A t \in BagToSet(tasks) : t.kind # "confirm" )
        => UNCHANGED <<images, history, historyIndex>> ]_vars

\* C10: the request has the image part first and the text part last, a mask
\* part between them exactly when maskBase64 is a non-empty string, and no
\* other part: 2 parts without a mask, 3 with one.
C10_PartsOrder ==
    call.stage # "idle" =>
        LET n == Len(parts)
            masked == Len(call.maskBase64) = 1 /\ Len(call.maskBase64[1]) > 0
        IN  /\ n = IF masked THEN 3 ELSE 2
            /\ parts[1].kind = "inlineData"
            /\ parts[1].data = getRawBase64(call.base64Image)
            /\ parts[1].mimeType = call.mimeType
            /\ parts[n].kind = "text"
            /\ masked => /\ parts[2].kind = "inlineData"
                         /\ parts[2].data = getRawBase64(call.maskBase64[1])
                         /\ parts[2].mimeType = "image/png"

\* a request with a mask was built and sent
C10_Witness == call.stage = "awaiting" /\ Len(parts) = 3

\* response.candidates[0].content.parts has a part with inlineData
HasImagePart(response) ==
    /\ response.candidate /\ response.hasParts
    /\ \E k \in 1..Len(response.parts) : response.parts[k].kind = "inlineData"

\* C11: when generateContent resolves, editImageWithPrompt returns normally
\* exactly when the first candidate has an inline image part, and otherwise
\* rejects with exactly the message built for the outcome of the response
\* (safety block, other finish reason, empty response, text, no image data).
C11_MessageUnchanged ==
    [][ \A r \in Responses :
          (r.threw = "no" /\ generateContentSettled(r)) =>
              /\ call'.outcome.ok <=> HasImagePart(r)
              /\ call'.outcome = inspectResponse(r) ]_vars

RemovedLast ==
    IF historyIndex >= 1 /\ images = history[historyIndex + 1]
    THEN {id \in Ids(history[historyIndex]) :
            history[historyIndex + 1] = Filter(history[historyIndex], id)}
    ELSE {}

InRange(adj) ==
    \A control \in DOMAIN adjustmentControls :
        /\ adjustmentControls[control].min <= adj[control]
        /\ adj[control] <= adjustmentControls[control].max

\* every ImageState of the image list and of the history snapshots
Stored == {images[k] : k \in 1..Len(images)}
          \cup UNION {{history[j][k] : k \in 1..Len(history[j])} : j \in 1..Len(history)}

\* a crop in '%' that denotes a rectangle inside the image
InsideImage(c) ==
    /\ c.unit = "%"
    /\ c.x >= 0 /\ c.y >= 0
    /\ c.x + c.width <= 100 /\ c.y + c.height <= 100

\* C15: every ImageState of the image list and of every history snapshot has
\* brightness, contrast and saturate in 0..200 and hue in -180..180, the
\* slider events carrying values within the sliders' ranges.
C15_AdjustmentsBounded ==
    /\ \A img \in Stored : InRange(img.adjustments)
    /\ tempAdjustments # NoAdj => InRange(tempAdjustments[1])

\* an image edited by the AI has had both sliders moved to an end of their range
C15_Witness ==
    \E k \in 1..Len(images) :
        /\ images[k].generatedBase64 # NoData
        /\ images[k].adjustments.brightness = adjustmentControls.brightness.max
        /\ images[k].adjustments.hue = adjustmentControls.hue.min

\* C16: a loading flag that is set is eventually reset: isLoading and
\* isEnhancing each lead to their being false, whatever the outcome of
\* preparing the image, of the AI call and of decoding the result, every
\* handler between two awaits being eventually resumed.
C16_SpinnerStops ==
    /\ isLoading ~> ~isLoading
    /\ isEnhancing ~> ~isEnhancing

\* the intermediate edits of the tools
EphemeralStep ==
    \/ \E e \in SliderEvents : handleAdjustmentChange(e[1], e[2])
    \/ \E e \in SliderEvents : handleResetAdjustment(e[1])
    \/ \E c \in CropDrags : CropChange(c)
    \/ \E a \in AspectClicks : onImageLoad(a)
    \/ \E a \in AspectClicks : handleAspectRatioChange(a)
    \/ stopDrawing
    \/ handleClearMask

\* C17: slider changes, crop changes before confirmation, mask strokes and
\* handleClearMask leave the history pointer and every stored snapshot
\* unchanged; handleConfirmAdjustments and handleConfirmCrop leave the image
\* list as it is and save exactly one snapshot, equal to that list, after the
\* current one.
C17_ToolEditsEphemeral ==
    [][ /\ EphemeralStep => UNCHANGED <<history, historyIndex>>
        /\ (handleConfirmAdjustments \/ handleConfirmCrop) =>
              /\ images' = images
              /\ history' = Append(SubSeq(history, 1, historyIndex + 1), images)
              /\ historyIndex' = historyIndex + 1
      ]_vars

\* a crop was dragged and confirmed, and a mask stroke drawn since is in the
\* image list only
C17_Witness ==
    /\ historyIndex = 1
    /\ Len(images) = 1 /\ Len(history[2]) = 1
    /\ history[2][1].crop \in {<<c>> : c \in CropDrags}
    /\ history[2][1].maskBase64 = NoData
    /\ images[1].maskBase64 = MaskData
    /\ images[1].crop = history[2][1].crop

\* C18: Cancel gives the active image the adjustments it had when the adjust
\* tool was opened.  What Cancel restores is originalAdjustments, so: when the
\* tool opens on an image, originalAdjustments are that image's adjustments;
\* slider changes and resets do not change originalAdjustments; and Cancel
\* sets the active image's adjustments to originalAdjustments.
C18_CancelRestoresOpened ==
    [][ /\ ((\E tool \in Tools : handleToolSelect(tool)) /\ AdjustPanelShown') =>
              originalAdjustments' = activeImage'.adjustments
        /\ ( \/ \E e \in SliderEvents : handleAdjustmentChange(e[1], e[2])
             \/ \E e \in SliderEvents : handleResetAdjustment(e[1]) ) =>
              originalAdjustments' = originalAdjustments
        /\ handleCancelAdjustments =>
              activeImage'.adjustments = originalAdjustments
      ]_vars

\* C19: the percentage crop onImageLoad stores in the ImageState is the
\* initial centred aspect-ratio crop it passes to the cropper.
C19_StoredCropIsInitialCrop ==
    [][ \A a \in AspectClicks :
          onImageLoad(a) =>
              activeImage'.crop =
                  <<centerCrop(makeAspectCrop(ASPECT_RATIOS[a], activeImage.naturalWidth,
                                              activeImage.naturalHeight),
                               activeImage.naturalWidth, activeImage.naturalHeight)>>
      ]_vars

\* C20: every canvas createCroppedBlob draws is OutputWidth wide; for a crop
\* with positive width and height its source rectangle is crop.x, crop.y,
\* crop.width, crop.height hundredths of the natural dimensions and its
\* height is OutputWidth * cropHeightPx / cropWidthPx; for an absent crop or
\* one of zero width or height it is the whole image and its height is
\* naturalHeight * OutputWidth / naturalWidth.
C20_CroppedCanvas ==
    [][ \A task \in BagToSet(tasks) :
          HandleSaveDone(task) =>
              \A k \in 1..Len(task.images) :
                  LET img  == task.images[k]
                      W    == TempImage(img).naturalWidth
                      H    == TempImage(img).naturalHeight
                      blob == saved'[Len(saved')][k]
                  IN  /\ blob.width = OutputWidth
                      /\ IF img.crop # NoCrop /\ img.crop[1].width > 0
                            /\ img.crop[1].height > 0
                         THEN /\ blob.sx = img.crop[1].x * W
                              /\ blob.sy = img.crop[1].y * H
                              /\ blob.sw = img.crop[1].width * W
                              /\ blob.sh = img.crop[1].height * H
                              /\ blob.height = (OutputWidth * blob.sh) \div blob.sw
                         ELSE /\ blob.sx = 0 /\ blob.sy = 0
                              /\ blob.sw = 100 * W /\ blob.sh = 100 * H
                              /\ blob.height = (H * OutputWidth) \div W
      ]_vars

\* an image with a dragged crop was exported: the canvas is cut from inside
\* the image
C20_Witness ==
    \E j \in 1..Len(saved) : \E k \in 1..Len(saved[j]) :
        /\ saved[j][k].sx > 0
        /\ saved[j][k].sw < 100 * DimOf(saved[j][k].src).w
        /\ saved[j][k].width = OutputWidth

\* the entries of the image list that selectedImageId designates
SelectedEntries == {k \in 1..Len(images) : images[k].id = selectedImageId}

\* C13: at most one entry of the image list has an id equal to
\* selectedImageId; the ids of the list are pairwise distinct.
C13_AtMostOneSelected ==
    /\ Cardinality(SelectedEntries) <= 1
    /\ \A j, k \in 1..Len(images) : images[j].id = images[k].id => j = k

\* C12: every crop stored in an ImageState of the image list or of a history
\* snapshot, when present, has unit '%' and lies inside the image.
C12_CropNormalized == \A img \in Stored : img.crop # NoCrop => InsideImage(img.crop[1])

\* the image handleSave loads for an ImageState: generatedBase64 || base64
SavedSource(img) ==
    IF img.generatedBase64 # NoData THEN img.generatedBase64 ELSE img.base64

\* C21: handleSave on an empty list changes nothing; otherwise the payloads
\* passed to onSave grow only by the one payload of an invocation that ends,
\* which has one blob per image of the invocation's list, in list order, each
\* drawn from generatedBase64 if present, else base64, with that image's crop
\* and adjustments; an invocation that fails passes nothing and sets error.
C21_SaveAllOrNothing ==
    [][ /\ (HandleSaveStart /\ Len(images) = 0) => UNCHANGED vars
        /\ HandleSaveStart => saved' = saved
        /\ saved' # saved =>
              \E task \in BagToSet(tasks) :
                  /\ task.kind = "save"
                  /\ CopiesIn(task, tasks') = CopiesIn(task, tasks) - 1
                  /\ Len(saved') = Len(saved) + 1
                  /\ SubSeq(saved', 1, Len(saved)) = saved
                  /\ error' = error
                  /\ LET payload == saved'[Len(saved')]
                     IN  /\ Len(payload) = Len(task.images)
                         /\ \A k \in 1..Len(payload) :
                               LET img == task.images[k]
                               IN  /\ payload[k].src = SavedSource(img)
                                   /\ payload[k].filter = img.adjustments
                                   /\ payload[k].sx =
                                         IF img.crop = NoCrop THEN 0
                                         ELSE img.crop[1].x * DimOf(SavedSource(img)).w
                                   /\ payload[k].sw =
                                         IF img.crop = NoCrop
                                         THEN 100 * DimOf(SavedSource(img)).w
                                         ELSE img.crop[1].width * DimOf(SavedSource(img)).w
        /\ \A task \in BagToSet(tasks) : \A m \in SaveFailures :
              HandleSaveFail(task, m) => (saved' = saved /\ error' # NoError)
      ]_vars

\* a list of two images, one of them edited by the AI, was exported
C21_Witness ==
    \E j \in 1..Len(saved) :
        /\ Len(saved[j]) = 2
        /\ \E k \in 1..2 : saved[j][k].src \in {ResultData[r] : r \in 1..Len(ResultData)}
        /\ \E k \in 1..2 : saved[j][k].src = FileData

\* C22: when reading or decoding a file of an upload batch fails, the batch
\* ends there: the image list, the history, the pointer and the selection
\* are unchanged, and error is set to a non-empty message.
C22_UploadAllOrNothing ==
    [][ \A task \in BagToSet(tasks) :
          HandleImageUploadFail(task) =>
              /\ UNCHANGED <<images, history, historyIndex, selectedImageId>>
              /\ error' # NoError /\ error'[1] # <<>>
              /\ CopiesIn(task, tasks') = CopiesIn(task, tasks) - 1
      ]_vars

\* an upload failed while the list held an image: the list is the current
\* snapshot and the failure's message is shown
C22_Witness ==
    /\ error = <<<<"Falha ao processar as imagens.">>>>
    /\ Len(images) > 0
    /\ images = history[historyIndex + 1]
    /\ \A t \in BagToSet(tasks) : t.kind # "upload"

\* C23: a call of handleGenerate with no active image or with an empty
\* prompt sets error, starts no request, leaves isLoading as it is, and
\* leaves the image list, the history, the prompt and the active tool
\* unchanged.
C23_GenerateValidates ==
    [][ (handleGenerateCalled /\ (~hasActiveImage \/ prompt = "")) =>
            /\ error' # NoError
            /\ UNCHANGED <<tasks, results, isLoading>>
            /\ UNCHANGED <<images, history, historyIndex, prompt, activeTool>>
      ]_vars

\* the call was refused for want of an active image, the prompt being typed
\* and the list holding an image
C23_Witness ==
    /\ error = <<<<"Por favor, selecione uma imagem e descreva a edição.">>>>
    /\ prompt # ""
    /\ Len(images) > 0
    /\ ~hasActiveImage
    /\ ~isLoading
    /\ AiTasks = {}

\* the saved state undo and redo work on
HistoryState == [images |-> images, history |-> history, historyIndex |-> historyIndex]

\* the mutant shows the snapshot at the old index
RedoneStale(h) ==
    IF h.historyIndex < Len(h.history) - 1
    THEN [h EXCEPT !.historyIndex = h.historyIndex + 1,
                   !.images = h.history[h.historyIndex + 1]]
    ELSE h

\* undo and redo as functions of the saved state (lines 145-159)
Undone(h) ==
    IF h.historyIndex > 0
    THEN [h EXCEPT !.historyIndex = h.historyIndex - 1,
                   !.images = h.history[(h.historyIndex - 1) + 1]]
    ELSE h

Redone(h) ==
    IF h.historyIndex < Len(h.history) - 1
    THEN [h EXCEPT !.historyIndex = h.historyIndex + 1,
                   !.images = h.history[(h.historyIndex + 1) + 1]]
    ELSE h

\* C24: undo and redo are the functions Undone and Redone of the saved state;
\* when the image list is the snapshot at historyIndex, undo then redo (for
\* historyIndex > 0) and redo then undo (for historyIndex < history.length - 1)
\* give back the same image list, the same historyIndex and the same history.
C24_UndoRedoIdentity ==
    /\ [][ /\ undo => HistoryState' = Undone(HistoryState)
           /\ redo => HistoryState' = Redone(HistoryState) ]_vars
    /\ [](historyIndex >= 0 /\ images = history[historyIndex + 1] =>
            /\ historyIndex > 0 => Redone(Undone(HistoryState)) = HistoryState
            /\ historyIndex < Len(history) - 1 =>
                  Undone(Redone(HistoryState)) = HistoryState)

\* the list is the last of two different snapshots: undo changes it and redo
\* brings it back
C24_Witness ==
    /\ historyIndex > 0
    /\ images = history[historyIndex + 1]
    /\ Undone(HistoryState).images # images
    /\ Redone(Undone(HistoryState)) = HistoryState
    /\ Len(images) = MaxListImages

\* C25: the step that applies the result of handleGenerate changes exactly
\* one image of the list, the one selected when the request was issued, to
\* that image with the result applied (generatedBase64, no mask, full crop,
\* default adjustments, the result's dimensions and file); the other images,
\* the order and the length of the list are unchanged, and the new list is
\* saved as the one snapshot after the current one.
C25_GenerateChangesOneImage ==
    [][ \A task \in BagToSet(tasks) :
          GenerateApplied(task) =>
              /\ Len(images') = Len(images)
              /\ Cardinality({k \in 1..Len(images) : images[k].id = task.sel}) = 1
              /\ \A k \in 1..Len(images) :
                    images'[k] = IF images[k].id = task.sel
                                 THEN ApplyResult(images[k], task.result,
                                                  "generated-image.png")
                                 ELSE images[k]
              /\ history' = Append(SubSeq(history, 1, historyIndex + 1), images')
              /\ historyIndex' = historyIndex + 1
      ]_vars

\* C26: the step that completes an upload of n files leaves the image list
\* as it was before the step followed by the n new images in file order,
\* each without AI result and mask and with the default adjustments; it
\* saves that list as the one snapshot after the current one; it selects the
\* first new image if nothing was selected and leaves the selection alone
\* otherwise.
C26_UploadAppends ==
    [][ \A task \in BagToSet(tasks) :
          HandleImageUploadDone(task) =>
              /\ Len(images') = Len(images) + task.n
              /\ SubSeq(images', 1, Len(images)) = images
              /\ \A k \in 1..task.n :
                    /\ images'[Len(images) + k].id[2] = k - 1
                    /\ images'[Len(images) + k].generatedBase64 = NoData
                    /\ images'[Len(images) + k].maskBase64 = NoData
                    /\ images'[Len(images) + k].adjustments = defaultAdjustments
              /\ history' = Append(SubSeq(history, 1, historyIndex + 1), images')
              /\ historyIndex' = historyIndex + 1
              /\ selectedImageId' = IF selectedImageId = NoId
                                    THEN images'[Len(images) + 1].id
                                    ELSE selectedImageId
      ]_vars

\* C27: handleRemoveImage(id) leaves the images whose id is not id, unchanged
\* and in their order, and no other; it selects the first remaining image
\* (none when the list is empty) if id was selected and leaves the selection
\* alone otherwise; it saves the new list as the one snapshot after the
\* current one.
C27_RemoveExactly ==
    [][ \A id \in Ids(images) :
          handleRemoveImage(id) =>
              /\ images' = SelectSeq(images, LAMBDA img : img.id # id)
              /\ selectedImageId' =
                    IF selectedImageId # id THEN selectedImageId
                    ELSE IF images' = <<>> THEN NoId ELSE images'[1].id
              /\ history' = Append(SubSeq(history, 1, historyIndex + 1), images')
              /\ historyIndex' = historyIndex + 1
      ]_vars

\* the first of two images, the selected one, was removed: the other is
\* shown and selected
C27_Witness ==
    /\ RemovedLast # {}
    /\ Len(history[historyIndex]) = 2
    /\ history[historyIndex][1].id \in RemovedLast
    /\ Len(images) = 1
    /\ selectedImageId = images[1].id
    /\ selectedImageId \notin RemovedLast

\* C28: Cancel gives the active image the crop it had when the crop tool was
\* opened.  What Cancel restores is originalCrop, so: when the tool opens on
\* an image, originalCrop is that image's crop; crop drags and aspect-ratio
\* changes do not change originalCrop; and Cancel sets the active image's
\* crop to originalCrop.
C28_CancelCropRestoresOpened ==
    [][ /\ ((\E tool \in Tools : handleToolSelect(tool))
              /\ activeTool' = "crop" /\ hasActiveImage') =>
              originalCrop' = activeImage'.crop
        /\ ( \/ \E c \in CropDrags \cup CropPresses : CropChange(c)
             \/ \E a \in AspectClicks : handleAspectRatioChange(a) ) =>
              originalCrop' = originalCrop
        /\ (handleCancelCrop /\ hasActiveImage) =>
              activeImage'.crop = originalCrop
      ]_vars

\* C29: selectedImageId is null or the id of an image of the image list, and
\* it is the id of an image of the list whenever the list is not empty.
C29_SelectionNeverDangles ==
    /\ selectedImageId = NoId \/ selectedImageId \in Ids(images)
    /\ Len(images) > 0 => selectedImageId \in Ids(images)

\* C30: a confirmation is invoked on the image the pending enhancement was
\* generated from (the image selected at the click is that image), and the
\* step that applies it puts the result on no other image than the one
\* selected at the click.
C30_EnhancementLandsOnSource ==
    [][ /\ (handleConfirmEnhancement /\ tasks' # tasks) =>
              selectedImageId = pendingSource
        /\ \A task \in BagToSet(tasks) :
              ConfirmApplied(task) =>
                  \A k \in 1..Len(images') :
                      images'[k].generatedBase64 = task.pending =>
                          images'[k].id = task.sel
      ]_vars


\* C31: the step that applies the result of handleGenerate yields the image
\* list current at that step with only the target image replaced by the
\* image with the result applied, whatever changed the list while the
\* request was in flight, and appends that list to the history as it is at
\* that step, truncated after the current snapshot.
C31_ResultKeepsConcurrentChanges ==
    [][ \A task \in BagToSet(tasks) :
          GenerateApplied(task) =>
              /\ images' = MapImage(images, task.sel,
                                    [n \in DOMAIN images |->
                                        ApplyResult(images[n], task.result,
                                                    "generated-image.png")])
              /\ history' = Append(SubSeq(history, 1, historyIndex + 1), images')
      ]_vars


\* C32: the step that completes an upload of n files drops no image of the
\* list current at that step and adds n entries to it, whatever completed
\* (another upload, a remove, an undo, the initial load) since the upload
\* was started; so when every upload has completed, the list holds the
\* images of every batch.
C32_OverlappingUploadsLoseNoImage ==
    [][ \A task \in BagToSet(tasks) :
          HandleImageUploadDone(task) =>
              /\ \A k \in 1..Len(images) :
                    \E j \in 1..Len(images') : images'[j] = images[k]
              /\ Len(images') = Len(images) + task.n
      ]_vars


\* C33: whenever no tool is active, no handler is in flight and no
\* enhancement is pending, the image list is the history snapshot at
\* historyIndex (the empty list while nothing has been saved yet).
C33_IdleListIsSnapshot ==
    (activeTool = NoTool /\ tasks = EmptyBag /\ pendingEnhancement = NoData)
        => images = IF historyIndex >= 0 THEN history[historyIndex + 1] ELSE <<>>

====
